---- MODULE Spec2Model ----
(***************************************************************************)
(* Control plane of the AIStore proxy (ais/prxdl.go).                      *)
(*                                                                         *)
(* The module holds several specifications over the same state:            *)
(*   Spec     administrative primary change between proxies, with the      *)
(*            metasync wave the new primary emits                          *)
(*   SpecConc the same, with requests served concurrently                  *)
(*   SpecRx   receipt of metadata (receiveRMD, receiveBMD)                 *)
(*   SpecFwd  control-plane writes arriving at a proxy (forwardCP)         *)
(*   SpecJoin concurrent joins at the primary (updateAndDistribute)        *)
(*   SpecDl   the downloader admin broadcast                               *)
(***************************************************************************)
EXTENDS Integers, Sequences, FiniteSets, TLC

(***************************************************************************)
(* The cluster: node ids.  "p1" is the primary when the cluster starts.    *)
(***************************************************************************)
Proxies == {"p1", "p2", "p3"}
Targets == {"t1"}
Nodes == Proxies \cup Targets
NoNode == "none"

\* bounds of the model: client requests served in Spec and, concurrently, in
\* SpecConc; proxies a forwarded request may pass through
MaxReq == 1
MaxConc == 2
MaxHops == 1

VARIABLES
    smap,      \* smap[p]: the Smap installed at proxy p (p.owner.smap)
    bmd,       \* bmd[p]:  the BMD installed at proxy p (p.owner.bmd)
    rmd,       \* rmd[p]:  the RMD installed at proxy p (p.owner.rmd)
    down,      \* proxies whose process has exited (glog.Fatalf)
    req,       \* req[r]: the handler serving client request r
    msync,     \* metasync payloads in flight
    rx,        \* the last receiveRMD / receiveBMD call and the versions received
    fwd,       \* the last control-plane write handled by a proxy
    jn,        \* the join handlers running at the primary
    waves,     \* the calls of metasyncer.sync, in the order in which they were made
    dl,        \* the downloader admin broadcast being served
    rd,        \* the object request being redirected
    ls,        \* the listing of a bucket, page after page
    adm        \* the forced join or the recovery of the BMD being served, and
               \* the roles of the metasyncers

vars == <<smap, bmd, rmd, down, req, msync, rx, fwd, jn, waves, dl, rd, ls, adm>>

\* what the primary-change handlers never touch
auxVars == <<rx, fwd, jn, dl, rd, ls, adm>>

(***************************************************************************)
(* Smap: version, primary, proxy map, target map.                          *)
(***************************************************************************)
Smap0 == [Version |-> 1, Primary |-> "p1", Pmap |-> Proxies, Tmap |-> Targets]
\* BMD: Buckets are the registered buckets, Renamed those whose Renamed
\* property is set, EC those with erasure coding enabled
BMD0 == [UUID |-> "A", Version |-> 1, Buckets |-> {}, Renamed |-> {}, EC |-> {}]
RMD0 == [Version |-> 1, TargetIDs |-> {}]

isPrimary(s, p) == s.Primary = p

\* smapX.GetProxy(id) # nil
GetProxy(s, id) == id \in s.Pmap

\* the information council (IC): an Smap that carries it has the field IC, a
\* function from the ids of the members to their ages
HasIC(s) == "IC" \in DOMAIN s
ICOf(s) == IF HasIC(s) THEN DOMAIN s.IC ELSE {}
IsIC(s, id) == id \in ICOf(s)

\* the size of the council
ICSize == 3

\* smapX.staffIC: members that are no longer proxies leave, and proxies are
\* added, with the version of the clone as their age, while there is room
staffIC(clone) ==
    IF ~HasIC(clone) THEN clone
    ELSE LET kept == DOMAIN clone.IC \cap clone.Pmap
             cands == clone.Pmap \ kept
             room == ICSize - Cardinality(kept)
             added == IF Cardinality(cands) <= room THEN cands
                      ELSE IF room <= 0 THEN {}
                      ELSE CHOOSE A \in SUBSET cands : Cardinality(A) = room
         IN [clone EXCEPT !.IC = [q \in kept \cup added |->
                                    IF q \in kept THEN clone.IC[q]
                                    ELSE clone.Version]]

\* syncNewICOwners, lines 998-1013: the proxies that p sends its ownership
\* table to
syncNewICOwners(p, old, new) ==
    IF ~IsIC(old, p) \/ ~IsIC(new, p) THEN {}
    ELSE {[from |-> p, to |-> q] : q \in ICOf(new) \ ICOf(old)}

\* the tables sent so far, when the specification keeps them
SendTbl(tbls) ==
    IF adm.op = "ic" THEN [adm EXCEPT !.sent = @ \cup tbls] ELSE adm

\* owner.put: replace if strictly newer, else keep
SmapPut(cur, new) == IF new.Version > cur.Version THEN new ELSE cur

\* owner.synchronize(incoming, lesserIsErr): install if newer;
\* a lower version is an error when lesserIsErr
Synchronize(cur, new, lesserIsErr) ==
    IF new.Version > cur.Version
    THEN [md |-> new, err |-> FALSE]
    ELSE [md |-> cur, err |-> lesserIsErr /\ new.Version < cur.Version]

\* callAll: every node of the caller's Smap but the caller
CallAll(p) == (smap[p].Pmap \cup smap[p].Tmap) \ {p}

(***************************************************************************)
(* PUT /v1/cluster/proxy/<id>: httpclusetprimaryproxy                      *)
(***************************************************************************)
IdleReq == [pc |-> "idle", at |-> NoNode, id |-> NoNode, hops |-> 0,
            todo |-> {}, prepErrs |-> {}, commitErrs |-> {},
            commitSent |-> {}, applied |-> {}]

\* the client (or a forwarding proxy) delivers the request to proxy p
ClientSetPrimary(r, p, id) ==
    /\ req[r].pc = "idle"
    /\ p \notin down
    /\ req' = [req EXCEPT ![r] = [IdleReq EXCEPT !.pc = "recv", !.at = p, !.id = id]]
    /\ UNCHANGED <<smap, bmd, rmd, down, msync, waves, auxVars>>

\* forwardCP: a proxy that is not primary in its Smap forwards to the primary
ForwardCP(p) == ~isPrimary(smap[p], p)

\* lines 2661-2680: forward, validate, start the prepare phase
SetPrimaryBegin(r) ==
    LET p == req[r].at
        id == req[r].id
    IN
    /\ req[r].pc = "recv"
    /\ p \notin down
    /\ IF ForwardCP(p)
       THEN IF req[r].hops < MaxHops /\ smap[p].Primary \notin down
            THEN req' = [req EXCEPT ![r].at = smap[p].Primary, ![r].hops = @ + 1]
            ELSE req' = [req EXCEPT ![r].pc = "failed"]
       ELSE IF ~GetProxy(smap[p], id)
            THEN req' = [req EXCEPT ![r].pc = "rejected"]
            ELSE IF id = p
                 THEN req' = [req EXCEPT ![r].pc = "done"]
                 ELSE req' = [req EXCEPT ![r].pc = "prepare", ![r].todo = CallAll(p)]
    /\ UNCHANGED <<smap, bmd, rmd, down, msync, waves, auxVars>>

\* httpdaesetprimaryproxy at proxy n, lines 2580-2598: does the request fail?
DaeSetPrimaryErr(n, id) ==
    \/ isPrimary(smap[n], n)
    \/ (n # id /\ ~GetProxy(smap[n], id))

\* (I) prepare phase: node n answers the prepare request
PrepareCall(r, n, netErr) ==
    /\ req[r].pc = "prepare"
    /\ req[r].at \notin down
    /\ n \in req[r].todo
    /\ LET err == \/ netErr
                  \/ n \in down
                  \/ (n \in Proxies /\ DaeSetPrimaryErr(n, req[r].id))
       IN req' = [req EXCEPT ![r].todo = @ \ {n},
                             ![r].prepErrs = IF err THEN @ \cup {n} ELSE @]
    /\ UNCHANGED <<smap, bmd, rmd, down, msync, waves, auxVars>>

\* a coordinator that aborts only when the designated proxy fails to prepare
PrepareFailedOnlyDesignated(r) == req[r].id \in req[r].prepErrs

\* lines 2681-2686: any error among the prepare results aborts
PrepareFailed(r) == req[r].prepErrs # {}

\* lines 2689-2693: clone.Primary = psi
CommitLocallyPre(clone, id) == [clone EXCEPT !.Primary = id]

\* end of the prepare phase, then (I.5) commit locally and start (II)
PrepareDone(r) ==
    LET p == req[r].at
    IN
    /\ req[r].pc = "prepare"
    /\ p \notin down
    /\ req[r].todo = {}
    /\ IF PrepareFailed(r)
       THEN /\ req' = [req EXCEPT ![r].pc = "aborted"]
            /\ UNCHANGED smap
       ELSE /\ smap' = [smap EXCEPT ![p] = CommitLocallyPre(@, req[r].id)]
            /\ req' = [req EXCEPT ![r].pc = "commit",
                                  ![r].todo = CallAll(p),
                                  ![r].commitSent = CallAll(p),
                                  ![r].applied = @ \cup {p}]
    /\ UNCHANGED <<bmd, rmd, down, msync, waves, auxVars>>

\* becomeNewPrimary, lines 2617-2632: the pre callback
BecomeNewPrimaryPre(clone, p) ==
    staffIC([clone EXCEPT !.Primary = p, !.Version = @ + 100])

\* a pair that a metasync payload does not carry
NoMD == [absent |-> TRUE]

\* metasyncer.sync(pairs...): one payload per proxy of the sender's Smap
\* (the targets receive theirs too; their side is not part of the proxy)
SyncWave(p, s, b, m) ==
    {[dst |-> d, from |-> p, smap |-> s, bmd |-> b, rmd |-> m] :
        d \in (smap'[p].Pmap \ {p})}

\* the call of metasyncer.sync by proxy p, with the pairs s, b, m
Sync(p, s, b, m) ==
    /\ msync' = msync \cup SyncWave(p, s, b, m)
    /\ waves' = Append(waves, [from |-> p, smap |-> s, bmd |-> b, rmd |-> m])

\* lines 2607-2610: clone.Primary = psi
DaeSetPrimaryPre(clone, id) == [clone EXCEPT !.Primary = id]

\* (II) commit phase: node n handles the commit request
CommitCall(r, n, netErr) ==
    LET id == req[r].id
    IN
    /\ req[r].pc = "commit"
    /\ req[r].at \notin down
    /\ n \in req[r].todo
    /\ IF netErr \/ n \in down \/ (n \in Proxies /\ DaeSetPrimaryErr(n, id))
       THEN /\ req' = [req EXCEPT ![r].todo = @ \ {n}, ![r].commitErrs = @ \cup {n}]
            /\ UNCHANGED <<smap, msync, waves>>
       ELSE IF n \in Targets
            THEN /\ req' = [req EXCEPT ![r].todo = @ \ {n}]
                 /\ UNCHANGED <<smap, msync, waves>>
            ELSE IF n = id
                 THEN LET clone == BecomeNewPrimaryPre(smap[n], n)
                      IN /\ smap' = [smap EXCEPT ![n] = clone]
                         /\ Sync(n, clone, bmd[n], rmd[n])
                         /\ req' = [req EXCEPT ![r].todo = @ \ {n},
                                               ![r].applied = @ \cup {n}]
                 ELSE /\ smap' = [smap EXCEPT ![n] = DaeSetPrimaryPre(@, id)]
                      /\ req' = [req EXCEPT ![r].todo = @ \ {n},
                                            ![r].applied = @ \cup {n}]
                      /\ UNCHANGED <<msync, waves>>
    /\ adm' = IF /\ ~(netErr \/ n \in down
                       \/ (n \in Proxies /\ DaeSetPrimaryErr(n, id)))
                 /\ n = id
              THEN SendTbl(syncNewICOwners(n, smap[n],
                                           BecomeNewPrimaryPre(smap[n], n)))
              ELSE adm
    /\ UNCHANGED <<bmd, rmd, down, rx, fwd, jn, dl, rd, ls>>

\* lines 2701-2710: a commit failure of the new primary is fatal
CommitFatal(r) == req[r].id \in req[r].commitErrs

CommitDone(r) ==
    LET p == req[r].at
    IN
    /\ req[r].pc = "commit"
    /\ p \notin down
    /\ req[r].todo = {}
    /\ IF CommitFatal(r)
       THEN /\ req' = [req EXCEPT ![r].pc = "fatal"]
            /\ down' = down \cup {p}
       ELSE /\ req' = [req EXCEPT ![r].pc = "done"]
            /\ UNCHANGED down
    /\ UNCHANGED <<smap, bmd, rmd, msync, waves, auxVars>>

(***************************************************************************)
(* PUT /v1/metasync: metasyncHandler                                       *)
(***************************************************************************)
\* owner.rmd.put: install only if strictly newer
RmdPut(cur, new) == IF new.Version > cur.Version THEN new ELSE cur

\* a receiveRMD that does not report a downgrade
receiveRMDSilent(cur, new) ==
    IF new.Version <= cur.Version
    THEN [md |-> cur, err |-> FALSE]
    ELSE [md |-> RmdPut(cur, new), err |-> FALSE]

\* receiveRMD, lines 3558-3569
receiveRMD(cur, new) ==
    IF new.Version <= cur.Version
    THEN [md |-> cur, err |-> new.Version < cur.Version]
    ELSE [md |-> RmdPut(cur, new), err |-> FALSE]

\* bucketMD.validateUUID: the UUIDs differ and both versions are non-zero
validateUUID(cur, new) ==
    cur.UUID # new.UUID /\ cur.Version # 0 /\ new.Version # 0

\* a put that installs whatever it is given
BmdPutAlways(cur, new) == new

\* owner.bmd.put: replace if strictly newer, else keep
BmdPut(cur, new) == IF new.Version > cur.Version THEN new ELSE cur

\* receiveBMD, lines 3581-3596
receiveBMD(cur, new) ==
    IF validateUUID(cur, new)
    THEN [md |-> BmdPut(cur, new), err |-> TRUE]
    ELSE IF new.Version <= cur.Version
         THEN [md |-> cur, err |-> new.Version < cur.Version]
         ELSE [md |-> BmdPut(cur, new), err |-> FALSE]

\* lines 911-923: a primary refuses to be on the receiving side
MetasyncRefused(p) == isPrimary(smap[p], p)

containsID(s, id) == id \in (s.Pmap \cup s.Tmap)

\* lines 948-957: the keys of rproxy.nodes that stay when the receiver, which
\* held the Smap old, has synchronized with the Smap new
RproxyCleanup(keys, old, new) ==
    keys \ {k \in keys : containsID(old, k) /\ ~containsID(new, k)}

MetasyncHandler(m) ==
    LET p == m.dst
    IN
    /\ m \in msync
    /\ p \notin down
    /\ msync' = msync \ {m}
    /\ IF MetasyncRefused(p)
       THEN UNCHANGED <<smap, bmd, rmd>>
       ELSE /\ smap' = [smap EXCEPT ![p] =
                        IF m.smap = NoMD THEN @ ELSE Synchronize(@, m.smap, TRUE).md]
            /\ rmd' = [rmd EXCEPT ![p] =
                        IF m.rmd = NoMD THEN @ ELSE receiveRMD(@, m.rmd).md]
            /\ bmd' = [bmd EXCEPT ![p] =
                        IF m.bmd = NoMD THEN @ ELSE receiveBMD(@, m.bmd).md]
    /\ adm' = IF /\ ~MetasyncRefused(p)
                 /\ m.smap # NoMD
                 /\ ~Synchronize(smap[p], m.smap, TRUE).err
              THEN IF adm.op = "rv"
                   THEN [adm EXCEPT !.nodes[p] = RproxyCleanup(@, smap[p], m.smap)]
                   ELSE SendTbl(syncNewICOwners(p, smap[p], m.smap))
              ELSE adm
    /\ UNCHANGED <<down, req, waves, rx, fwd, jn, dl, rd, ls>>

\* nothing but the primary change is running
AuxIdle ==
    /\ rx = [last |-> [op |-> "none"], seen |-> [p \in Proxies |-> RMD0.Version]]
    /\ fwd = [op |-> "none"]
    /\ jn = [cfg |-> [enabled |-> TRUE, tooEarly |-> FALSE], h |-> <<>>]
    /\ dl = [pc |-> "none"]
    /\ rd = [pc |-> "none"]
    /\ ls = [pc |-> "none"]
    /\ adm = [op |-> "none"]

(***************************************************************************)
(* Spec: primary change                                                    *)
(***************************************************************************)
Init ==
    /\ smap = [p \in Proxies |-> Smap0]
    /\ bmd = [p \in Proxies |-> BMD0]
    /\ rmd = [p \in Proxies |-> RMD0]
    /\ down = {}
    /\ req = [r \in 1..MaxReq |-> IdleReq]
    /\ msync = {}
    /\ waves = <<>>
    /\ AuxIdle

Next ==
    \/ \E r \in DOMAIN req, p \in Proxies, id \in Proxies : ClientSetPrimary(r, p, id)
    \/ \E r \in DOMAIN req : SetPrimaryBegin(r)
    \/ \E r \in DOMAIN req, n \in Nodes, e \in BOOLEAN : PrepareCall(r, n, e)
    \/ \E r \in DOMAIN req : PrepareDone(r)
    \/ \E r \in DOMAIN req, n \in Nodes, e \in BOOLEAN : CommitCall(r, n, e)
    \/ \E r \in DOMAIN req : CommitDone(r)
    \/ \E m \in msync : MetasyncHandler(m)

Spec == Init /\ [][Next]_vars

\* SpecConc: the same handlers serving MaxConc requests concurrently
InitConc ==
    /\ smap = [p \in Proxies |-> Smap0]
    /\ bmd = [p \in Proxies |-> BMD0]
    /\ rmd = [p \in Proxies |-> RMD0]
    /\ down = {}
    /\ req = [r \in 1..MaxConc |-> IdleReq]
    /\ msync = {}
    /\ waves = <<>>
    /\ AuxIdle

SpecConc == InitConc /\ [][Next]_vars

(***************************************************************************)
(* Properties of the primary change                                        *)
(***************************************************************************)
\* C1: a request one of whose prepare calls was answered with an error sends
\* no commit request and changes the primary in no Smap, the coordinator's
\* included: it stays in the prepare phase until it aborts.  As long as no
\* request has changed a primary, every Smap is the one the cluster started
\* with.
PrepareFailureAborts ==
    /\ \A r \in DOMAIN req :
          req[r].prepErrs # {} =>
              /\ req[r].pc \in {"prepare", "aborted"}
              /\ req[r].commitSent = {}
              /\ req[r].applied = {}
    /\ (\A r \in DOMAIN req : req[r].applied = {}) =>
          \A p \in Proxies : smap[p] = Smap0

\* a request aborted after a node other than the designated proxy failed to
\* prepare
PrepareFailureSeen ==
    \E r \in DOMAIN req :
        /\ req[r].pc = "aborted"
        /\ req[r].prepErrs # {}
        /\ req[r].id \notin req[r].prepErrs

\* C2: once the commit request has failed on the designated new primary, no
\* Smap names the designated proxy as primary.
CommitFailureAbandons ==
    \A r \in DOMAIN req :
        req[r].pc = "fatal" => \A p \in Proxies : smap[p].Primary # req[r].id

\* C3: at most one running proxy is primary according to its own Smap.
AtMostOnePrimary ==
    Cardinality({p \in Proxies \ down : isPrimary(smap[p], p)}) <= 1

\* C4: every Smap installed at a proxy has a version strictly greater than
\* the version of the Smap it replaces.
SmapVersionStrictlyIncreases ==
    [][\A p \in Proxies :
          smap'[p] # smap[p] => smap'[p].Version > smap[p].Version]_vars

(***************************************************************************)
(* SpecRx: receiveRMD and receiveBMD at the non-primary proxies            *)
(***************************************************************************)
MaxVer == 2
UUIDs == {"A", "B"}
BucketNames == {"b", "c"}

\* the RMDs and BMDs that a payload or a registration reply may carry
RMDs == [Version : 0..MaxVer, TargetIDs : {{}, Targets}]
BMDs == [UUID : UUIDs, Version : 0..MaxVer, Buckets : {{}, {"b"}},
         Renamed : {{}}, EC : {{}}]

\* metasyncHandler (line 940) and applyRegMeta (line 528) hand the RMD of
\* the payload to receiveRMD
CallReceiveRMD(p, new) ==
    LET res == receiveRMD(rmd[p], new)
    IN
    /\ ~MetasyncRefused(p)
    /\ rmd' = [rmd EXCEPT ![p] = res.md]
    /\ rx' = [last |-> [op |-> "rmd", p |-> p, before |-> rmd[p], in |-> new,
                        after |-> res.md, err |-> res.err],
              seen |-> [rx.seen EXCEPT ![p] = IF new.Version > @ THEN new.Version ELSE @]]
    /\ UNCHANGED <<smap, bmd, down, req, msync, waves, fwd, jn, dl, rd, ls, adm>>

\* metasyncHandler (line 945) and applyRegMeta (line 518) hand the BMD of
\* the payload to receiveBMD
CallReceiveBMD(p, new) ==
    LET res == receiveBMD(bmd[p], new)
    IN
    /\ ~MetasyncRefused(p)
    /\ bmd' = [bmd EXCEPT ![p] = res.md]
    /\ rx' = [rx EXCEPT !.last = [op |-> "bmd", p |-> p, before |-> bmd[p],
                                  in |-> new, after |-> res.md, err |-> res.err]]
    /\ UNCHANGED <<smap, rmd, down, req, msync, waves, fwd, jn, dl, rd, ls, adm>>

NextRx ==
    \/ \E p \in Proxies, new \in RMDs : CallReceiveRMD(p, new)
    \/ \E p \in Proxies, new \in BMDs : CallReceiveBMD(p, new)

SpecRx == Init /\ [][NextRx]_vars

RmdVersionIsMax ==
    /\ \A p \in Proxies :
          rmd[p].Version = rx.seen[p]
    /\ rx.last.op = "rmd" =>
          /\ rx.last.in.Version < rx.last.before.Version =>
                rx.last.err /\ rx.last.after = rx.last.before
          /\ rx.last.in.Version = rx.last.before.Version =>
                ~rx.last.err /\ rx.last.after = rx.last.before
          /\ rx.last.in.Version > rx.last.before.Version =>
                ~rx.last.err /\ rx.last.after = rx.last.in

\* an RMD older than one installed earlier was refused
RmdDowngradeSeen ==
    /\ rx.last.op = "rmd"
    /\ rx.last.before.Version > RMD0.Version
    /\ rx.last.in.Version < rx.last.before.Version
    /\ rx.last.err
    /\ rmd[rx.last.p] = rx.last.before

(***************************************************************************)
(* SpecFwd: the control-plane writes of clients and targets, at any proxy  *)
(***************************************************************************)
MaxWaves == 2

\* the handlers below stop mutating once MaxWaves waves have been sent
CanSync == Len(waves) < MaxWaves

\* bucketMD add, del and the property updates: each bumps the version
BmdAdd(clone, b) ==
    [clone EXCEPT !.Buckets = @ \cup {b}, !.Version = @ + 1]

BmdDel(clone, b) ==
    [clone EXCEPT !.Buckets = @ \ {b}, !.Renamed = @ \ {b}, !.EC = @ \ {b},
                  !.Version = @ + 1]

BmdRename(clone, from, to) ==
    [clone EXCEPT !.Buckets = @ \cup {to}, !.Renamed = @ \cup {from},
                  !.Version = @ + 1]

BmdSetEC(clone, b) ==
    [clone EXCEPT !.EC = @ \cup {b}, !.Version = @ + 1]

\* smapX.delProxy / delTarget
SmapDel(clone, sid) ==
    [clone EXCEPT !.Pmap = @ \ {sid}, !.Tmap = @ \ {sid}, !.Version = @ + 1]

\* rebMD.inc
RmdInc(clone) == [clone EXCEPT !.Version = @ + 1]

\* lines 3687-3701
canStartRebalance == jn.cfg.enabled /\ ~jn.cfg.tooEarly

\* lines 3703-3727; ec is bmd.IsECUsed() of the proxy
requiresRebalance(prev, cur, ec) ==
    /\ canStartRebalance
    /\ \/ Cardinality(cur.Tmap) > Cardinality(prev.Tmap)
       \/ \E si \in cur.Tmap : si \notin prev.Tmap
       \/ ec /\ \E si \in prev.Tmap : si \notin cur.Tmap

IsECUsed(b) == b.EC # {}

\* metasyncer.sync called by p: a sender that is not primary stops on a
\* fatal assertion
SyncOrDie(p, s, b, m) ==
    IF isPrimary(smap'[p], p)
    THEN Sync(p, s, b, m) /\ UNCHANGED down
    ELSE down' = down \cup {p} /\ UNCHANGED <<msync, waves>>

\* what the last handler did: where it ran, whether that proxy was primary,
\* whether forwardCP took the request, whether the proxy's metadata changed
FwdRec(op, p, forwarded) ==
    fwd' = [op |-> op, p |-> p, primary |-> isPrimary(smap[p], p),
            forwarded |-> forwarded,
            mutated |-> <<smap'[p], bmd'[p], rmd'[p]>> # <<smap[p], bmd[p], rmd[p]>>]

NoChange == UNCHANGED <<smap, bmd, rmd, down, msync, waves>>

\* httpbckpost, create-bucket: lines 1136-1172
HttpBckCreate(p, b) ==
    /\ p \notin down
    /\ IF ForwardCP(p)
       THEN NoChange /\ FwdRec("create", p, TRUE)
       ELSE IF b \in bmd[p].Buckets
       THEN NoChange /\ FwdRec("create", p, FALSE)
       ELSE /\ CanSync
            /\ bmd' = [bmd EXCEPT ![p] = BmdAdd(@, b)]
            /\ UNCHANGED <<smap, rmd>>
            /\ SyncOrDie(p, NoMD, bmd'[p], NoMD)
            /\ FwdRec("create", p, FALSE)
    /\ UNCHANGED <<req, rx, jn, dl, rd, ls, adm>>

\* httpbckdelete, destroy-bucket: lines 850-881
HttpBckDelete(p, b) ==
    /\ p \notin down
    /\ IF b \notin bmd[p].Buckets
       THEN NoChange /\ FwdRec("destroy", p, FALSE)
       ELSE IF ForwardCP(p)
       THEN NoChange /\ FwdRec("destroy", p, TRUE)
       ELSE /\ CanSync
            /\ bmd' = [bmd EXCEPT ![p] = BmdDel(@, b)]
            /\ UNCHANGED <<smap, rmd>>
            /\ SyncOrDie(p, NoMD, bmd'[p], NoMD)
            /\ FwdRec("destroy", p, FALSE)
    /\ UNCHANGED <<req, rx, jn, dl, rd, ls, adm>>

\* httpbckpost, rename-bucket: lines 1174-1227
HttpBckRename(p, from, to) ==
    /\ p \notin down
    /\ IF ForwardCP(p)
       THEN NoChange /\ FwdRec("rename", p, TRUE)
       ELSE IF from \notin bmd[p].Buckets \/ from = to \/ to \in bmd[p].Buckets
       THEN NoChange /\ FwdRec("rename", p, FALSE)
       ELSE /\ CanSync
            /\ bmd' = [bmd EXCEPT ![p] = BmdRename(@, from, to)]
            /\ UNCHANGED <<smap, rmd>>
            /\ SyncOrDie(p, NoMD, bmd'[p], NoMD)
            /\ FwdRec("rename", p, FALSE)
    /\ UNCHANGED <<req, rx, jn, dl, rd, ls, adm>>

\* httpbckpatch, set-props (here: enable erasure coding): lines 1636-1685
HttpBckPatch(p, b) ==
    /\ p \notin down
    /\ IF ForwardCP(p)
       THEN NoChange /\ FwdRec("setprops", p, TRUE)
       ELSE IF b \notin bmd[p].Buckets
       THEN NoChange /\ FwdRec("setprops", p, FALSE)
       ELSE /\ CanSync
            /\ bmd' = [bmd EXCEPT ![p] = BmdSetEC(@, b)]
            /\ UNCHANGED <<smap, rmd>>
            /\ SyncOrDie(p, NoMD, bmd'[p], NoMD)
            /\ FwdRec("setprops", p, FALSE)
    /\ UNCHANGED <<req, rx, jn, dl, rd, ls, adm>>

\* httpdaeget with what=bmd and renamedlb=b, lines 2315-2319, and
\* handlePendingRenamedLB, lines 2288-2308.  Unlocking the owner's lock a
\* second time (lines 2299 and 2290) is a run-time fatal error.
HandlePendingRenamedLB(p, b) ==
    /\ p \notin down
    /\ IF b \notin bmd[p].Buckets
       THEN NoChange
       ELSE IF b \notin bmd[p].Renamed
       THEN down' = down \cup {p} /\ UNCHANGED <<smap, bmd, rmd, msync, waves>>
       ELSE /\ isPrimary(smap[p], p) => CanSync
            /\ bmd' = [bmd EXCEPT ![p] = BmdPut(@, BmdDel(@, b))]
            /\ UNCHANGED <<smap, rmd>>
            /\ SyncOrDie(p, NoMD, bmd'[p], NoMD)
    /\ FwdRec("pending-rename", p, FALSE)
    /\ UNCHANGED <<req, rx, jn, dl, rd, ls, adm>>

\* unregisterNode, lines 3288-3343, as the pre-callback of modify: the new
\* Smap, or an error
unregisterNode(p, clone, sid) ==
    IF \/ sid \notin (smap[p].Pmap \cup smap[p].Tmap)
       \/ sid \notin (clone.Pmap \cup clone.Tmap)
    THEN [err |-> TRUE, clone |-> clone]
    ELSE LET c == staffIC(SmapDel(clone, sid))
         IN [err |-> ~isPrimary(c, p), clone |-> c]

\* httpcludel, lines 3239-3286
HttpCluDel(p, sid) ==
    /\ p \notin down
    /\ IF sid \notin (smap[p].Pmap \cup smap[p].Tmap)
       THEN NoChange /\ FwdRec("unregister", p, FALSE)
       ELSE IF ForwardCP(p)
       THEN NoChange /\ FwdRec("unregister", p, TRUE)
       ELSE LET res == unregisterNode(p, smap[p], sid)
            IN IF res.err
               THEN NoChange /\ FwdRec("unregister", p, FALSE)
               ELSE /\ CanSync
                    /\ smap' = [smap EXCEPT ![p] = res.clone]
                    /\ rmd' = [rmd EXCEPT ![p] =
                                 IF requiresRebalance(smap[p], res.clone, IsECUsed(bmd[p]))
                                 THEN RmdInc(@) ELSE @]
                    /\ UNCHANGED bmd
                    /\ SyncOrDie(p, res.clone, NoMD,
                                 IF rmd'[p] # rmd[p] THEN rmd'[p] ELSE NoMD)
                    /\ FwdRec("unregister", p, FALSE)
    /\ UNCHANGED <<req, rx, jn, dl, rd, ls, adm>>

\* cluputJSON, start of the rebalance xaction: lines 3372-3376, 3413-3425
CluStartRebalance(p) ==
    /\ p \notin down
    /\ IF ForwardCP(p)
       THEN NoChange /\ FwdRec("rebalance", p, TRUE)
       ELSE IF ~canStartRebalance
       THEN NoChange /\ FwdRec("rebalance", p, FALSE)
       ELSE /\ CanSync
            /\ rmd' = [rmd EXCEPT ![p] = RmdInc(@)]
            /\ UNCHANGED <<smap, bmd>>
            /\ SyncOrDie(p, NoMD, NoMD, rmd'[p])
            /\ FwdRec("rebalance", p, FALSE)
    /\ UNCHANGED <<req, rx, jn, dl, rd, ls, adm>>

NextFwd ==
    \/ \E p \in Proxies, b \in BucketNames : HttpBckCreate(p, b)
    \/ \E p \in Proxies, b \in BucketNames : HttpBckDelete(p, b)
    \/ \E p \in Proxies, b \in BucketNames, to \in BucketNames : HttpBckRename(p, b, to)
    \/ \E p \in Proxies, b \in BucketNames : HttpBckPatch(p, b)
    \/ \E p \in Proxies, b \in BucketNames : HandlePendingRenamedLB(p, b)
    \/ \E p \in Proxies, sid \in Nodes : HttpCluDel(p, sid)
    \/ \E p \in Proxies : CluStartRebalance(p)
    \/ \E m \in msync : MetasyncHandler(m)

SpecFwd == Init /\ [][NextFwd]_vars

\* C7: a handler of a client or target request that ran at a proxy that was
\* not primary left the Smap, the BMD and the RMD of that proxy as they
\* were.
NonPrimaryNeverMutates ==
    (fwd.op # "none" /\ ~fwd.primary) => ~fwd.mutated

(***************************************************************************)
(* SpecJoin: nodes joining, httpclupost and updateAndDistribute            *)
(***************************************************************************)
MaxJoin == 2

\* the nodes that ask to join: a target and a proxy the cluster knows, two
\* new targets and a new proxy, each with an address of its own
TargetNodes == {"t1", "t2", "t3"}
Joiners == {"t1", "t2", "t3", "p2", "p4"}
JoinKinds == {"join", "keepalive"}

IsTarget(nsi) == nsi \in TargetNodes

IdleJoin == [pc |-> "idle"]

\* smapX.putNode: the node is added to its map and the version bumped
putNode(clone, nsi) ==
    IF IsTarget(nsi)
    THEN [clone EXCEPT !.Tmap = @ \cup {nsi}, !.Version = @ + 1]
    ELSE [clone EXCEPT !.Pmap = @ \cup {nsi}, !.Version = @ + 1]

\* addOrUpdateNode, lines 3205-3236, for a started node: known is osi # nil,
\* equal is osi.Equals(nsi), dup is the answer of detectDaemonDuplicate
addOrUpdateNode(known, equal, dup, keepalive) ==
    IF keepalive
    THEN IF ~known THEN TRUE
         ELSE IF ~equal THEN ~dup
         ELSE FALSE
    ELSE ~(known /\ equal)

\* handleJoinKalive, lines 3077-3143, in a started cluster, for the
\* self-registration and keepalive requests of nodes that have kept their
\* descriptors and share no address: does the Smap need an update
handleJoinKalive(s, nsi, keepalive) ==
    IF IsTarget(nsi)
    THEN ~(keepalive /\ ~addOrUpdateNode(nsi \in s.Tmap, TRUE, FALSE, keepalive))
    ELSE addOrUpdateNode(nsi \in s.Pmap, TRUE, FALSE, keepalive)

\* httpclupost, lines 2979-3074, up to the start of updateAndDistribute
HttpCluPost(j, p, nsi, kind) ==
    /\ jn.h[j].pc = "idle"
    /\ p \notin down
    /\ jn' = [jn EXCEPT !.h[j] =
                IF ForwardCP(p)
                THEN [pc |-> "forwarded", at |-> p, nsi |-> nsi]
                ELSE IF ~handleJoinKalive(smap[p], nsi, kind = "keepalive")
                THEN [pc |-> "noupdate", at |-> p, nsi |-> nsi]
                ELSE [pc |-> "update", at |-> p, nsi |-> nsi, snap |-> smap[p]]]
    /\ UNCHANGED <<smap, bmd, rmd, down, req, msync, waves, rx, fwd, dl, rd, ls, adm>>

\* an update computed from the Smap that handleJoinKalive had returned
JoinBaseStale(j) == jn.h[j].snap

\* line 3150: the clone that modify hands to the pre-callback is a copy of
\* the Smap current under the lock
JoinBase(j) == smap[jn.h[j].at]

\* updateAndDistribute, lines 3150-3165: the pre-callback of modify and the
\* install, under the lock of the Smap owner
UpdatePre(j) ==
    LET h == jn.h[j]
        p == h.at
        clone == staffIC(putNode(JoinBase(j), h.nsi))
    IN
    /\ h.pc = "update"
    /\ p \notin down
    /\ IF ~isPrimary(smap[p], p)
       THEN /\ jn' = [jn EXCEPT !.h[j] = [pc |-> "failed", at |-> p, nsi |-> h.nsi]]
            /\ UNCHANGED smap
       ELSE /\ smap' = [smap EXCEPT ![p] = clone]
            /\ jn' = [jn EXCEPT !.h[j] =
                        [pc |-> "post", at |-> p, nsi |-> h.nsi,
                         prev |-> smap[p], clone |-> clone,
                         exists |-> h.nsi \in (JoinBase(j).Tmap \cup JoinBase(j).Pmap)]]
    /\ adm' = IF adm.op = "ka" /\ isPrimary(smap[p], p)
              THEN [adm EXCEPT !.reg[h.nsi] = adm.h[j].nsi]
              ELSE adm
    /\ UNCHANGED <<bmd, rmd, down, req, msync, waves, rx, fwd, dl, rd, ls>>

\* every join of a target bumps the RMD
JoinBumpsRmdAlways(exists, need) == TRUE

\* line 3179
JoinBumpsRmd(exists, need) == exists \/ need

\* updateAndDistribute, lines 3166-3197: the post-callback of modify, which
\* runs after the lock has been released
UpdatePost(j) ==
    LET h == jn.h[j]
        p == h.at
        bump == /\ IsTarget(h.nsi)
                /\ JoinBumpsRmd(h.exists,
                                requiresRebalance(h.prev, h.clone, IsECUsed(bmd[p])))
    IN
    /\ h.pc = "post"
    /\ p \notin down
    /\ rmd' = [rmd EXCEPT ![p] =
                 IF bump THEN [RmdInc(@) EXCEPT !.TargetIDs = {h.nsi}] ELSE @]
    /\ UNCHANGED <<smap, bmd>>
    /\ SyncOrDie(p, h.clone, bmd[p],
                 IF IsTarget(h.nsi) /\ ~bump THEN NoMD ELSE rmd'[p])
    /\ jn' = [jn EXCEPT !.h[j] =
                [pc |-> "done", at |-> p, nsi |-> h.nsi, prev |-> h.prev,
                 clone |-> h.clone, exists |-> h.exists,
                 rmdWas |-> rmd[p].Version, rmdIs |-> rmd'[p].Version]]
    /\ adm' = IF isPrimary(smap[p], p)
              THEN SendTbl(syncNewICOwners(p, h.prev, h.clone))
              ELSE adm
    /\ UNCHANGED <<req, rx, fwd, dl, rd, ls>>

InitJoin ==
    /\ smap = [p \in Proxies |-> Smap0]
    /\ bmd = [p \in Proxies |-> BMD0]
    /\ rmd = [p \in Proxies |-> RMD0]
    /\ down = {}
    /\ req = [r \in 1..MaxReq |-> IdleReq]
    /\ msync = {}
    /\ waves = <<>>
    /\ rx = [last |-> [op |-> "none"], seen |-> [p \in Proxies |-> RMD0.Version]]
    /\ fwd = [op |-> "none"]
    /\ dl = [pc |-> "none"]
    /\ rd = [pc |-> "none"]
    /\ ls = [pc |-> "none"]
    /\ adm = [op |-> "none"]
    /\ jn \in [cfg : [enabled : BOOLEAN, tooEarly : BOOLEAN],
               h : {[j \in 1..MaxJoin |-> IdleJoin]}]

NextJoin ==
    \/ \E j \in DOMAIN jn.h, p \in Proxies, nsi \in Joiners, kind \in JoinKinds :
          HttpCluPost(j, p, nsi, kind)
    \/ \E j \in DOMAIN jn.h : UpdatePre(j)
    \/ \E j \in DOMAIN jn.h : UpdatePost(j)

SpecJoin == InitJoin /\ [][NextJoin]_vars

\* two runs of updateAndDistribute, for two different targets, at the same
\* proxy, have both completed
JoinsComplete(a, b) ==
    /\ a # b
    /\ jn.h[a].pc = "done" /\ jn.h[b].pc = "done"
    /\ jn.h[a].at = jn.h[b].at
    /\ jn.h[a].nsi # jn.h[b].nsi
    /\ IsTarget(jn.h[a].nsi) /\ IsTarget(jn.h[b].nsi)

WavesIncreasing ==
    \A i, k \in DOMAIN waves :
        i < k => waves[i].smap.Version < waves[k].smap.Version

\* C8, as stated: once two concurrent joins of different targets have
\* completed, the Smap holds both targets and the Smap versions of the
\* waves increase in the order in which the waves were sent.
ConcurrentJoinsWavesIncrease ==
    \A a, b \in DOMAIN jn.h :
        JoinsComplete(a, b) =>
            /\ {jn.h[a].nsi, jn.h[b].nsi} \subseteq smap[jn.h[a].at].Tmap
            /\ WavesIncreasing

\* C8, amended: once two concurrent joins of different targets have
\* completed, the Smap holds both targets; each join has sent a wave with
\* the Smap it installed; the two versions differ, both exceed the version
\* from before the joins, and the Smap of the greater version holds both
\* targets.  The order of sending is not the order of the versions.
ConcurrentJoinsKept ==
    \A a, b \in DOMAIN jn.h :
        JoinsComplete(a, b) =>
            /\ {jn.h[a].nsi, jn.h[b].nsi} \subseteq smap[jn.h[a].at].Tmap
            /\ \E i \in DOMAIN waves : waves[i].smap = jn.h[a].clone
            /\ jn.h[a].clone.Version # jn.h[b].clone.Version
            /\ jn.h[a].clone.Version > Smap0.Version
            /\ jn.h[a].clone.Version > jn.h[b].clone.Version =>
                  {jn.h[a].nsi, jn.h[b].nsi} \subseteq jn.h[a].clone.Tmap

\* two new targets have joined, their updates interleaved: the join that
\* installed the later Smap has sent its wave first
ConcurrentJoinsSeen ==
    \E a, b \in DOMAIN jn.h :
        /\ JoinsComplete(a, b)
        /\ {jn.h[a].nsi, jn.h[b].nsi} \cap Targets = {}
        /\ Len(waves) = 2
        /\ waves[1].smap = jn.h[a].clone
        /\ waves[2].smap = jn.h[b].clone
        /\ jn.h[a].clone.Version > jn.h[b].clone.Version

\* by how much a completed join has raised the RMD version
RmdDelta(j) == jn.h[j].rmdIs - jn.h[j].rmdWas

\* C9, as stated: a completed join has raised the RMD version by one if the
\* node is a target and requiresRebalance holds of the Smap before and
\* after its addition, and has left it alone otherwise.
JoinBumpsRmdIffRequired ==
    \A j \in DOMAIN jn.h :
        jn.h[j].pc = "done" =>
            RmdDelta(j) =
                IF /\ IsTarget(jn.h[j].nsi)
                   /\ requiresRebalance(jn.h[j].prev, jn.h[j].clone,
                                        IsECUsed(bmd[jn.h[j].at]))
                THEN 1 ELSE 0

\* C9, amended: a completed join has raised the RMD version by one if the
\* node is a target and either was in the Smap already or is new to it
\* while rebalance is enabled and allowed to start, and has left it alone
\* otherwise.
JoinBumpsRmdIffExistsOrRequired ==
    \A j \in DOMAIN jn.h :
        jn.h[j].pc = "done" =>
            RmdDelta(j) =
                IF /\ IsTarget(jn.h[j].nsi)
                   /\ \/ jn.h[j].nsi \in jn.h[j].prev.Tmap
                      \/ jn.cfg.enabled /\ ~jn.cfg.tooEarly
                THEN 1 ELSE 0

\* a target that was in the Smap already has joined again while rebalance
\* could not start, and the RMD version has gone up
RejoinBumpSeen ==
    \E j \in DOMAIN jn.h :
        /\ jn.h[j].pc = "done"
        /\ jn.h[j].nsi \in jn.h[j].prev.Tmap
        /\ ~(jn.cfg.enabled /\ ~jn.cfg.tooEarly)
        /\ RmdDelta(j) = 1

(***************************************************************************)
(* SpecDl: the downloader's admin broadcast                                *)
(***************************************************************************)
MaxTargets == 3

StatusOK == 200
StatusBadRequest == 400
StatusNotFound == 404
StatusInternalServerError == 500

\* a job or status body without content, and the value of a nil pointer
NoJobs == [j \in {} |-> {}]
DlNil == [kind |-> "nil"]

\* what a target may answer: a status and, with 200, a body that
\* jsoniter.Unmarshal accepts or not; jobs is the body read as a map from job
\* id to DlJobInfo, st the body read as a DlStatusResp
CallResults ==
    {[status |-> StatusOK, parses |-> TRUE, jobs |-> NoJobs, st |-> {1}],
     [status |-> StatusOK, parses |-> FALSE, jobs |-> NoJobs, st |-> {}],
     [status |-> StatusNotFound, parses |-> FALSE, jobs |-> NoJobs, st |-> {}],
     [status |-> StatusBadRequest, parses |-> FALSE, jobs |-> NoJobs, st |-> {}],
     [status |-> StatusInternalServerError, parses |-> FALSE, jobs |-> NoJobs, st |-> {}]}

\* the results of bcastGroup, in the order of the channel
ResultSeqs == UNION {[1..n -> CallResults] : n \in 0..MaxTargets}

DlMethods == {"GET", "DELETE"}
DlIDs == {"", "job"}

\* DlJobInfo and DlStatusResp, as the set of tasks reported
DlInfos == {{1}, {2}}

\* the per-target entries of a listener, in the order in which Range visits
\* them
StatSeqs == UNION {[1..n -> DlInfos] : n \in 0..MaxTargets}

\* callResult.err: a result carries an error unless its status is 200
ResErr(res) == res.status # StatusOK

\* DlJobInfo.Aggregate
DlJobAggregate(v, old) == v \cup old

\* DlStatusResp.Aggregate: a nil receiver yields the argument
DlStatusAggregate(resp, status) ==
    IF resp = DlNil THEN [kind |-> "status", st |-> status]
    ELSE [kind |-> "status", st |-> DlJobAggregate(resp.st, status)]

\* a Range that stops after the first entry
DlRangeFirst(stats, k, resp) ==
    IF Len(stats) = 0 THEN resp ELSE DlStatusAggregate(resp, stats[1])

\* lines 30-44: stats.Range aggregates the entries one after the other
RECURSIVE DlRange(_, _, _)
DlRange(stats, k, resp) ==
    IF k > Len(stats) THEN resp
    ELSE DlRange(stats, k + 1, DlStatusAggregate(resp, stats[k]))

\* a scan that counts every failure as a 404
RECURSIVE DlScanNoAbort(_, _, _, _)
DlScanNoAbort(results, i, valid, notFoundCnt) ==
    IF i > Len(results)
    THEN [abort |-> FALSE, at |-> 0, valid |-> valid, notFoundCnt |-> notFoundCnt]
    ELSE IF results[i].status = StatusOK
    THEN DlScanNoAbort(results, i + 1, Append(valid, i), notFoundCnt)
    ELSE DlScanNoAbort(results, i + 1, valid, notFoundCnt + 1)

\* lines 67-81: the loop over the results; it stops at the first status
\* that is neither 200 nor 404
RECURSIVE DlScan(_, _, _, _)
DlScan(results, i, valid, notFoundCnt) ==
    IF i > Len(results)
    THEN [abort |-> FALSE, at |-> 0, valid |-> valid, notFoundCnt |-> notFoundCnt]
    ELSE IF results[i].status = StatusOK
    THEN DlScan(results, i + 1, Append(valid, i), notFoundCnt)
    ELSE IF results[i].status # StatusNotFound
    THEN [abort |-> TRUE, at |-> i, valid |-> valid, notFoundCnt |-> notFoundCnt]
    ELSE DlScan(results, i + 1, valid, notFoundCnt + 1)

\* lines 92-97 and 114-119: the bodies of the kept results are parsed one
\* after the other; the index of the first that does not parse, or 0
RECURSIVE DlFirstBad(_, _, _)
DlFirstBad(results, valid, k) ==
    IF k > Len(valid) THEN 0
    ELSE IF ~results[valid[k]].parses THEN valid[k]
    ELSE DlFirstBad(results, valid, k + 1)

\* a test that is content with one 404
AnyNotFound(notFoundCnt, respCnt) == notFoundCnt > 0

\* line 83
AllNotFound(notFoundCnt, respCnt) == notFoundCnt = respCnt

\* a merge that keeps the entry read last
DlMergeBodyLast(aggregate, parsedResp) ==
    [k \in (DOMAIN aggregate) \cup (DOMAIN parsedResp) |->
        IF k \in DOMAIN parsedResp THEN parsedResp[k] ELSE aggregate[k]]

\* lines 98-103: the entries of one response are merged into the aggregate
DlMergeBody(aggregate, parsedResp) ==
    [k \in (DOMAIN aggregate) \cup (DOMAIN parsedResp) |->
        IF k \in DOMAIN parsedResp
        THEN IF k \in DOMAIN aggregate
             THEN DlJobAggregate(parsedResp[k], aggregate[k])
             ELSE parsedResp[k]
        ELSE aggregate[k]]

\* lines 92-104: the loop over the kept responses
RECURSIVE DlMergeAll(_, _, _, _)
DlMergeAll(results, valid, k, aggregate) ==
    IF k > Len(valid) THEN aggregate
    ELSE DlMergeAll(results, valid, k + 1,
                    DlMergeBody(aggregate, results[valid[k]].jobs))

\* lines 113-120: the loop over the kept responses
RECURSIVE DlStatusAll(_, _, _, _)
DlStatusAll(results, valid, k, stResp) ==
    IF k > Len(valid) THEN stResp
    ELSE DlStatusAll(results, valid, k + 1,
                     DlStatusAggregate(stResp, results[valid[k]].st))

\* the value returned: the status, the index of the result whose error is
\* returned (0: none), the indices of the results whose bodies make up the
\* body, the body, whether the request was broadcast, the results handed to
\* drainCallResults after the one that aborted the loop
DlRet(status, at, from, body, bcast, drained) ==
    [status |-> status, at |-> at, from |-> from, body |-> body,
     bcast |-> bcast, drained |-> drained]

\* broadcastDownloadAdminRequest, lines 22-130.  known: queryStats, which
\* is called for a GET with an id and only-active-tasks, has found a
\* listener for the id, and stats are its entries.
broadcastDownloadAdminRequest(method, id, onlyActive, known, stats, results) ==
    IF id # "" /\ method = "GET" /\ onlyActive /\ known
    THEN DlRet(StatusOK, 0, <<>>, DlRange(stats, 1, DlNil), FALSE, {})
    ELSE LET respCnt == Len(results)
             scan == DlScan(results, 1, <<>>, 0)
             bad == DlFirstBad(results, scan.valid, 1)
         IN IF respCnt = 0
            THEN DlRet(StatusBadRequest, 0, <<>>, DlNil, TRUE, {})
            ELSE IF scan.abort
            THEN DlRet(results[scan.at].status, scan.at, <<>>, DlNil, TRUE,
                       (scan.at + 1)..respCnt)
            ELSE IF AllNotFound(scan.notFoundCnt, respCnt)
            THEN DlRet(StatusNotFound, respCnt, <<>>, DlNil, TRUE, {})
            ELSE IF method = "GET"
            THEN IF bad # 0
                 THEN DlRet(StatusInternalServerError, 0, <<>>, DlNil, TRUE, {})
                 ELSE IF id = ""
                 THEN DlRet(StatusOK, 0, scan.valid,
                            [kind |-> "jobs",
                             jobs |-> DlMergeAll(results, scan.valid, 1, NoJobs)],
                            TRUE, {})
                 ELSE DlRet(StatusOK, 0, scan.valid,
                            DlStatusAll(results, scan.valid, 1, DlNil), TRUE, {})
            ELSE DlRet(results[scan.valid[1]].status, 0, <<scan.valid[1]>>,
                       [kind |-> "raw", of |-> scan.valid[1]], TRUE, {})

\* a downloader admin request, GET or DELETE /v1/download, served
DlAdminRequest(method, id, onlyActive, known, stats, results) ==
    /\ dl.pc = "none"
    /\ dl' = [pc |-> "done", method |-> method, id |-> id,
              onlyActive |-> onlyActive, known |-> known, stats |-> stats,
              results |-> results,
              out |-> broadcastDownloadAdminRequest(method, id, onlyActive,
                                                    known, stats, results)]
    /\ UNCHANGED <<smap, bmd, rmd, down, req, msync, waves, rx, fwd, jn, rd, ls, adm>>

\* lines 140-148: the index of the first result that carries an error, or 0
RECURSIVE DlStartScan(_, _)
DlStartScan(results, i) ==
    IF i > Len(results) THEN 0
    ELSE IF ~ResErr(results[i]) THEN DlStartScan(results, i + 1)
    ELSE i

\* broadcastStartDownloadRequest, lines 132-150
broadcastStartDownloadRequest(results) ==
    LET at == DlStartScan(results, 1)
    IN IF at = 0
       THEN DlRet(StatusOK, 0, <<>>, DlNil, TRUE, {})
       ELSE DlRet(results[at].status, at, <<>>, DlNil, TRUE,
                  (at + 1)..Len(results))

\* a download started: POST /v1/download, the broadcast to the targets
DlStartRequest(results) ==
    /\ dl.pc = "none"
    /\ dl' = [pc |-> "started", results |-> results,
              out |-> broadcastStartDownloadRequest(results)]
    /\ UNCHANGED <<smap, bmd, rmd, down, req, msync, waves, rx, fwd, jn, rd, ls, adm>>

NextDl ==
    \/ \E method \in DlMethods, id \in DlIDs, onlyActive \in BOOLEAN,
          results \in ResultSeqs :
          \E known \in IF id # "" /\ method = "GET" /\ onlyActive
                        THEN BOOLEAN ELSE {FALSE} :
             \E stats \in IF known THEN StatSeqs ELSE {<<>>} :
                DlAdminRequest(method, id, onlyActive, known, stats, results)
    \/ \E results \in ResultSeqs : DlStartRequest(results)

SpecDl == Init /\ [][NextDl]_vars

\* the request was broadcast and every result is a 200 or a 404, one at
\* least a 200
DlSome200Rest404 ==
    /\ dl.out.bcast
    /\ \E i \in DOMAIN dl.results : dl.results[i].status = StatusOK
    /\ \A i \in DOMAIN dl.results :
          dl.results[i].status \in {StatusOK, StatusNotFound}

\* the status returned is 404 exactly when the request was broadcast, there
\* is a result and every result is a 404
Dl404IffAll404 ==
    dl.out.status = StatusNotFound <=>
        /\ dl.out.bcast
        /\ Len(dl.results) >= 1
        /\ \A i \in DOMAIN dl.results : dl.results[i].status = StatusNotFound

\* the body returned is made of bodies of 200 results only
DlFromOnly200 ==
    \A k \in DOMAIN dl.out.from : dl.results[dl.out.from[k]].status = StatusOK

\* C10, as stated: 404 is returned exactly when there is a result and all
\* results are 404; with a 200 among results that are all 200 or 404, the
\* status returned is 200 and the body is made of 200 results only.
DlAdminStatus ==
    dl.pc = "done" =>
        /\ Dl404IffAll404
        /\ DlSome200Rest404 =>
              /\ dl.out.status = StatusOK
              /\ DlFromOnly200

\* C10, amended: 404 is returned exactly when there is a result and all
\* results are 404; with a 200 among results that are all 200 or 404, a
\* DELETE returns 200 with the body of the first 200 result, a GET all of
\* whose 200 bodies parse returns 200 with the aggregate of all the 200
\* results, and a GET with a 200 body that does not parse returns 500.
DlAdminStatusParsed ==
    dl.pc = "done" =>
        /\ Dl404IffAll404
        /\ DlSome200Rest404 =>
              LET all200 == {i \in DOMAIN dl.results : dl.results[i].status = StatusOK}
                  bad == {i \in all200 : ~dl.results[i].parses}
                  from == {dl.out.from[k] : k \in DOMAIN dl.out.from}
              IN IF dl.method = "DELETE"
                 THEN /\ dl.out.status = StatusOK
                      /\ from = {CHOOSE i \in all200 : \A k \in all200 : i <= k}
                 ELSE IF bad = {}
                 THEN dl.out.status = StatusOK /\ from = all200
                 ELSE dl.out.status = StatusInternalServerError /\ from = {}

\* a GET answered by two 200s and a 404 has returned 200 with the two
\* bodies aggregated
DlMixedSeen ==
    /\ dl.pc = "done"
    /\ dl.method = "GET"
    /\ DlSome200Rest404
    /\ \E i \in DOMAIN dl.results : dl.results[i].status = StatusNotFound
    /\ Len(dl.out.from) = 2
    /\ dl.out.status = StatusOK

\* the least index of a set of indices
DlFirst(S) == CHOOSE i \in S : \A k \in S : i <= k

\* the results that are neither 200 nor 404
DlFatal == {i \in DOMAIN dl.results :
               dl.results[i].status \notin {StatusOK, StatusNotFound}}

\* the results that carry an error
DlErring == {i \in DOMAIN dl.results : ResErr(dl.results[i])}

\* C11: an admin broadcast one of whose results is neither 200 nor 404
\* returns the status and the error of the first such result in the order
\* of the channel, with no body, and drains the results after it; the
\* broadcast that starts a download returns the status and the error of the
\* first result that carries an error, and drains the results after it.
DlAbortsOnFirstError ==
    /\ (dl.pc = "done" /\ dl.out.bcast /\ DlFatal # {}) =>
          /\ dl.out.at = DlFirst(DlFatal)
          /\ dl.out.status = dl.results[DlFirst(DlFatal)].status
          /\ dl.out.from = <<>>
          /\ dl.out.body = DlNil
          /\ dl.out.drained = (DlFirst(DlFatal) + 1)..Len(dl.results)
    /\ (dl.pc = "started" /\ DlErring # {}) =>
          /\ dl.out.at = DlFirst(DlErring)
          /\ dl.out.status = dl.results[DlFirst(DlErring)].status
          /\ dl.out.drained = (DlFirst(DlErring) + 1)..Len(dl.results)

\* an admin broadcast has met a 404, then a 400, with a 500 to come: it has
\* returned the 400 and drained the 500
DlAbortSeen ==
    /\ dl.pc = "done"
    /\ dl.out.bcast
    /\ Len(dl.results) = 3
    /\ dl.results[1].status = StatusNotFound
    /\ dl.results[2].status = StatusBadRequest
    /\ dl.results[3].status = StatusInternalServerError
    /\ dl.out.status = StatusBadRequest
    /\ dl.out.drained = {3}

\* the request is a GET with an id and only-active-tasks, and the notifier
\* holds a listener for the id
DlListenerPath ==
    /\ dl.pc = "done"
    /\ dl.method = "GET" /\ dl.id # "" /\ dl.onlyActive
    /\ dl.known

\* C12: a GET with an id and only-active-tasks for which the notifier holds
\* stats returns 200 with the aggregate of all the per-target entries of the
\* listener (nil if it has none), and nothing is broadcast.
DlListenerAggregate ==
    DlListenerPath =>
        /\ dl.out.status = StatusOK
        /\ ~dl.out.bcast
        /\ dl.out.from = <<>>
        /\ dl.out.body =
              IF Len(dl.stats) = 0 THEN DlNil
              ELSE [kind |-> "status",
                    st |-> UNION {dl.stats[k] : k \in DOMAIN dl.stats}]

\* the listener held different entries of three targets, the targets would
\* have answered 404: the aggregate of the three has been returned with 200
DlListenerSeen ==
    /\ DlListenerPath
    /\ Len(dl.stats) = 3
    /\ dl.stats[1] # dl.stats[3]
    /\ Len(dl.results) = 3
    /\ \A i \in DOMAIN dl.results : dl.results[i].status = StatusNotFound
    /\ dl.out.status = StatusOK
    /\ dl.out.body.st = {1, 2}

(***************************************************************************)
(* SpecDlList: the list of download jobs, GET /v1/download without an id   *)
(***************************************************************************)
JobIDs == {"j1", "j2"}

\* the map from job id to DlJobInfo that a target answers with
JobBodies == UNION {[ids -> DlInfos] : ids \in SUBSET JobIDs}

\* a target has the downloader running and answers 200 with its jobs, or
\* answers 404
JobResults ==
    {[status |-> StatusOK, parses |-> TRUE, jobs |-> jobs, st |-> {}] :
        jobs \in JobBodies}
    \cup {[status |-> StatusNotFound, parses |-> FALSE, jobs |-> NoJobs, st |-> {}]}

JobResultSeqs == UNION {[1..n -> JobResults] : n \in 0..MaxTargets}

\* GET /v1/download with an empty id
DlListRequest(results) ==
    DlAdminRequest("GET", "", FALSE, FALSE, <<>>, results)

NextDlList == \E results \in JobResultSeqs : DlListRequest(results)

SpecDlList == Init /\ [][NextDlList]_vars

\* the results that are 200
DlAll200 == {i \in DOMAIN dl.results : dl.results[i].status = StatusOK}

\* C13: the list returned to a GET with an empty id holds one entry for each
\* job id that a 200 response names and no other, and the entry of an id is
\* the aggregate of the entries of that id in all the 200 responses, which
\* does not depend on the order of the responses.
DlListOnePerJob ==
    (dl.pc = "done" /\ dl.method = "GET" /\ dl.id = "" /\ DlAll200 # {}) =>
        /\ dl.out.status = StatusOK
        /\ dl.out.body.kind = "jobs"
        /\ DOMAIN dl.out.body.jobs =
              UNION {DOMAIN dl.results[i].jobs : i \in DlAll200}
        /\ \A k \in DOMAIN dl.out.body.jobs :
              dl.out.body.jobs[k] =
                 UNION {dl.results[i].jobs[k] :
                           i \in {n \in DlAll200 : k \in DOMAIN dl.results[n].jobs}}

\* three targets have answered, the first with task 1 of j1, the second
\* with a 404, the third with task 2 of j1 and a job j2: the list holds j1
\* with both tasks, and j2
DlListSeen ==
    /\ dl.pc = "done" /\ dl.method = "GET" /\ dl.id = ""
    /\ Len(dl.results) = 3
    /\ dl.results[1].status = StatusOK
    /\ dl.results[1].jobs = [j \in {"j1"} |-> {1}]
    /\ dl.results[2].status = StatusNotFound
    /\ dl.results[3].status = StatusOK
    /\ DOMAIN dl.results[3].jobs = JobIDs
    /\ dl.results[3].jobs["j1"] = {2}
    /\ dl.out.status = StatusOK
    /\ dl.out.body.jobs["j1"] = {1, 2}
    /\ DOMAIN dl.out.body.jobs = JobIDs

(***************************************************************************)
(* SpecRedir: object GET, PUT, DELETE and HEAD, redirected to a target     *)
(***************************************************************************)
StatusMovedPermanently == 301
StatusTemporaryRedirect == 307
StatusUnauthorized == 401
StatusForbidden == 403

Verbs == {"GET", "PUT", "DELETE", "HEAD"}

\* bck.MakeUname(objName) of the objects asked for
Unames == {"b/o1", "b/o2"}

\* r.URL.RawQuery; the last one makes IsParseBool(check_exists) true
RawQueries == {"", "a=1", "cex=true"}

\* the client's address and p.si.LocalNet: no CIDR configured, or the
\* address inside or outside of it
NetCases == {"nocidr", "inside", "outside"}

\* bck.Init, checkPermissions and bck.Allow
CheckOutcomes == {"ok", "unauthorized", "forbidden"}

\* the node id of the append handle of a PUT: none, a target of the Smap or
\* a node that no Smap holds
HandleNodes == {"", "t1", "t9"}

NetworkPublic == "public"
NetworkIntraControl == "control"
NetworkIntraData == "data"

\* the Smaps that a proxy may hold: one target, three targets, none
RedirSmaps ==
    {Smap0,
     [Smap0 EXCEPT !.Tmap = TargetNodes, !.Version = 3],
     [Smap0 EXCEPT !.Tmap = {}, !.Version = 6]}

\* the weight of a target for a uname: a hash of the two
HrwWeight(uname, t) ==
    IF uname = "b/o1"
    THEN (CASE t = "t1" -> 3 [] t = "t2" -> 1 [] OTHER -> 2)
    ELSE (CASE t = "t1" -> 1 [] t = "t2" -> 3 [] OTHER -> 2)

\* cluster.HrwTarget: the target of the greatest weight, NoNode if the Smap
\* holds no target
HrwTarget(uname, s) ==
    IF s.Tmap = {} THEN NoNode
    ELSE CHOOSE t \in s.Tmap :
            \A o \in s.Tmap : HrwWeight(uname, t) >= HrwWeight(uname, o)

\* Snode.URL(network)
NodeURL(si, netName) == "http://" \o si \o "-" \o netName

\* a redirect that drops the query of the request
redirectURLNoQuery(p, path, rawQuery, netCase, si, ts, netName) ==
    NodeURL(si, IF netCase = "inside" THEN netName ELSE NetworkPublic)
        \o path \o "?" \o "pid=" \o p \o "&utm=" \o ts

\* redirectURL, lines 1877-1908
redirectURL(p, path, rawQuery, netCase, si, ts, netName) ==
    LET nodeURL == IF netCase = "nocidr" THEN NodeURL(si, NetworkPublic)
                   ELSE IF netCase = "inside" THEN NodeURL(si, netName)
                   ELSE NodeURL(si, NetworkPublic)
    IN nodeURL \o path \o "?"
          \o (IF rawQuery # "" THEN rawQuery \o "&" ELSE "")
          \o "pid=" \o p \o "&utm=" \o ts

\* the answer of a handler: a redirect or an error
RdRedirect(status, si, location) ==
    [status |-> status, si |-> si, location |-> location]

RdError(status) == [status |-> status, si |-> NoNode, location |-> ""]

\* what fails the checks
RdCheck(c) ==
    IF c = "unauthorized" THEN StatusUnauthorized ELSE StatusForbidden

\* lines 694, 776, 825, 1728: the network that a handler passes to
\* redirectURL
ObjNetName(verb) ==
    IF verb \in {"GET", "PUT"} THEN NetworkIntraData ELSE NetworkIntraControl

\* httpobjget 653-697, httpobjput 700-784, httpobjdelete 787-829 and
\* httpobjhead 1686-1733, from the checks on
httpobj(p, verb, uname, rawQuery, netCase, check, appendTy, nodeID, ts) ==
    LET s == smap[p]
        path == "/v1/objects/" \o uname
        si == IF verb = "PUT" /\ nodeID # ""
              THEN (IF nodeID \in s.Tmap THEN nodeID ELSE NoNode)
              ELSE HrwTarget(uname, s)
        url == redirectURL(p, path, rawQuery, netCase, si, ts, ObjNetName(verb))
    IN IF check # "ok" THEN RdError(RdCheck(check))
       ELSE IF si = NoNode
       THEN RdError(IF verb = "HEAD" THEN StatusInternalServerError
                    ELSE StatusBadRequest)
       ELSE IF verb = "GET" THEN RdRedirect(StatusMovedPermanently, si, url)
       ELSE IF verb = "HEAD" /\ rawQuery = "cex=true"
       THEN RdRedirect(StatusTemporaryRedirect, si, url \o "&cex=true")
       ELSE RdRedirect(StatusTemporaryRedirect, si, url)

\* a client sends an object request to proxy p
ObjRequest(p, verb, uname, rawQuery, netCase, check, appendTy, nodeID) ==
    /\ rd.pc = "none"
    /\ rd' = [pc |-> "done", p |-> p, verb |-> verb, uname |-> uname,
              rawQuery |-> rawQuery, netCase |-> netCase, check |-> check,
              appendTy |-> appendTy, nodeID |-> nodeID,
              out |-> httpobj(p, verb, uname, rawQuery, netCase, check,
                              appendTy, nodeID, "1")]
    /\ UNCHANGED <<smap, bmd, rmd, down, req, msync, waves, rx, fwd, jn, dl, ls, adm>>

\* the client sends the same request to proxy q, later
ObjRequestAgain(q) ==
    /\ rd.pc = "done"
    /\ rd' = [pc |-> "again", p |-> rd.p, verb |-> rd.verb, uname |-> rd.uname,
              rawQuery |-> rd.rawQuery, netCase |-> rd.netCase,
              check |-> rd.check, appendTy |-> rd.appendTy,
              nodeID |-> rd.nodeID, out |-> rd.out, q |-> q,
              out2 |-> httpobj(q, rd.verb, rd.uname, rd.rawQuery, rd.netCase,
                               rd.check, rd.appendTy, rd.nodeID, "2")]
    /\ UNCHANGED <<smap, bmd, rmd, down, req, msync, waves, rx, fwd, jn, dl, ls, adm>>

InitRedir ==
    /\ smap \in [Proxies -> RedirSmaps]
    /\ bmd = [p \in Proxies |-> BMD0]
    /\ rmd = [p \in Proxies |-> RMD0]
    /\ down = {}
    /\ req = [r \in 1..MaxReq |-> IdleReq]
    /\ msync = {}
    /\ waves = <<>>
    /\ AuxIdle

NextRedir ==
    \/ \E p \in Proxies, verb \in Verbs, uname \in Unames,
          rawQuery \in RawQueries, netCase \in NetCases,
          check \in CheckOutcomes :
          \E appendTy \in IF verb = "PUT" THEN {"", "append"} ELSE {""} :
             \E nodeID \in IF appendTy = "" THEN {""} ELSE HandleNodes :
                ObjRequest(p, verb, uname, rawQuery, netCase, check,
                           appendTy, nodeID)
    \/ \E q \in Proxies : ObjRequestAgain(q)

SpecRedir == InitRedir /\ [][NextRedir]_vars

\* the request is one of those that C14 and C15 speak of: the checks have
\* passed, and a PUT carries no append handle
RdCovered ==
    /\ rd.pc \in {"done", "again"}
    /\ rd.check = "ok"
    /\ rd.verb = "PUT" => rd.nodeID = ""

\* the requests served so far: the proxy, the answer, the time
RdServed ==
    IF rd.pc = "none" THEN {}
    ELSE IF rd.pc = "done" THEN {[p |-> rd.p, out |-> rd.out, ts |-> "1"]}
    ELSE {[p |-> rd.p, out |-> rd.out, ts |-> "1"],
          [p |-> rd.q, out |-> rd.out2, ts |-> "2"]}

\* target URL + original path + original query + proxy id + unix time
RdLocation(x, suffix) ==
    \E netName \in {NetworkPublic, NetworkIntraControl, NetworkIntraData} :
        x.out.location =
            NodeURL(x.out.si, netName) \o "/v1/objects/" \o rd.uname \o "?"
                \o (IF rd.rawQuery # "" THEN rd.rawQuery \o "&" ELSE "")
                \o "pid=" \o x.p \o "&utm=" \o x.ts \o suffix

\* a redirect, 301 for GET and 307 for PUT, DELETE and HEAD, to the target
\* of the greatest weight in the Smap of the proxy
RdToHrw(x) ==
    /\ x.out.status = IF rd.verb = "GET" THEN StatusMovedPermanently
                      ELSE StatusTemporaryRedirect
    /\ x.out.si \in smap[x.p].Tmap
    /\ \A t \in smap[x.p].Tmap :
          HrwWeight(rd.uname, x.out.si) >= HrwWeight(rd.uname, t)

\* two proxies that hold the same Smap have chosen the same target
RdSameTarget ==
    (rd.pc = "again" /\ smap[rd.p] = smap[rd.q]) => rd.out.si = rd.out2.si

\* C14, as stated: an object GET, PUT without append handle, DELETE or HEAD
\* that passes the checks is answered with a redirect, 301 for GET and 307
\* for the others, to the target that HrwTarget selects in the Smap of the
\* proxy, the Location being target URL + path + query + proxy id + unix
\* time; two proxies with the same Smap redirect to the same target.
RedirectToHrw ==
    RdCovered =>
        /\ \A x \in RdServed : RdToHrw(x) /\ RdLocation(x, "")
        /\ RdSameTarget

\* C14, amended: as stated, for a proxy whose Smap holds a target; a proxy
\* whose Smap holds none answers with an error and no redirect; and the
\* Location of a HEAD whose query asks to check existence ends with a
\* second check-exists parameter.
RedirectToHrwIfTargets ==
    RdCovered =>
        /\ \A x \in RdServed :
              IF smap[x.p].Tmap = {}
              THEN /\ x.out.status \notin {StatusMovedPermanently,
                                            StatusTemporaryRedirect}
                   /\ x.out.location = ""
              ELSE /\ RdToHrw(x)
                   /\ RdLocation(x, IF rd.verb = "HEAD" /\ rd.rawQuery = "cex=true"
                                    THEN "&cex=true" ELSE "")
        /\ RdSameTarget

\* a DELETE with a query, sent to two different proxies that hold the same
\* Smap of three targets, has been redirected with 307 to the same target
\* both times
RedirectTwiceSeen ==
    /\ RdCovered
    /\ rd.pc = "again"
    /\ rd.verb = "DELETE"
    /\ rd.rawQuery = "a=1"
    /\ rd.p # rd.q
    /\ smap[rd.p] = smap[rd.q]
    /\ smap[rd.p].Tmap = TargetNodes
    /\ rd.out.status = StatusTemporaryRedirect
    /\ rd.out.si = "t2"
    /\ rd.out2.si = "t2"
    /\ rd.uname = "b/o2"

\* C15: the Location of the redirect of a GET, PUT, DELETE or HEAD starts
\* with the intra-data URL of the target when a CIDR is configured and the
\* client's address lies inside it, and with the public URL of the target
\* when the address lies outside it or no CIDR is configured.
RedirectNetByCidr ==
    RdCovered =>
        \A x \in RdServed :
            x.out.si # NoNode =>
                \E rest \in {"", "&cex=true"} :
                    x.out.location =
                        NodeURL(x.out.si, IF rd.netCase = "inside"
                                          THEN NetworkIntraData
                                          ELSE NetworkPublic)
                            \o "/v1/objects/" \o rd.uname \o "?"
                            \o (IF rd.rawQuery # "" THEN rd.rawQuery \o "&" ELSE "")
                            \o "pid=" \o x.p \o "&utm=" \o x.ts \o rest

(***************************************************************************)
(* SpecList: listObjectsAIS, page after page                               *)
(***************************************************************************)
MaxObjs == 5
MaxPage == 2

\* the names of the objects of the bucket, in their sorted order; 0 is the
\* empty continuation token, which sorts before every name
ObjNames == 1..MaxObjs
NoToken == 0

ListTargets == {"t1", "t2"}

\* the entries of a set of names, sorted
RECURSIVE SortBckEntries(_)
SortBckEntries(S) ==
    IF S = {} THEN <<>>
    ELSE LET m == CHOOSE x \in S : \A y \in S : x <= y
         IN <<m>> \o SortBckEntries(S \ {m})

Range(seq) == {seq[i] : i \in DOMAIN seq}

\* the entries of a sorted list that come after the token
AfterToken(entries, token) == SelectSeq(entries, LAMBDA e : e > token)

\* the first size entries of a list
FirstN(entries, size) ==
    SubSeq(entries, 1, IF Len(entries) < size THEN Len(entries) ELSE size)

\* what a target answers to the broadcast: its objects after the token, a
\* page of them
TargetPage(dist, t, token, size) ==
    FirstN(SortBckEntries({o \in ObjNames : dist[o] = t /\ o > token}), size)

\* a queryBuffer that has not been used
NoBuffer == [currentBuff |-> <<>>, nextToken |-> NoToken,
             leftovers |-> [t \in {} |-> <<>>]]

\* queryBuffer.set: the entries of a target; the target is done if it has
\* returned less than a page
BufSet(b, id, entries, size) ==
    [b EXCEPT !.leftovers =
        [t \in (DOMAIN b.leftovers) \cup {id} |->
            IF t = id THEN [entries |-> entries, done |-> Len(entries) < size]
            ELSE b.leftovers[t]]]

\* queryBuffer.mergeTargetBuffers: the entries of the targets are merged up
\* to the least of the last entries of the targets that are not done, and
\* appended to the current buffer; the entries after it are dropped
MergeTargetBuffers(b) ==
    LET ts == DOMAIN b.leftovers
        total == UNION {Range(b.leftovers[t].entries) : t \in ts}
        allDone == \A t \in ts : b.leftovers[t].done
        open == {t \in ts : ~b.leftovers[t].done /\ Len(b.leftovers[t].entries) > 0}
        lasts == {b.leftovers[t].entries[Len(b.leftovers[t].entries)] : t \in open}
        minObj == IF lasts = {} THEN NoToken
                  ELSE CHOOSE x \in lasts : \A y \in lasts : x <= y
        merged == {e \in total : minObj = NoToken \/ e <= minObj}
    IN IF ts = {} \/ (total = {} /\ ~allDone)
       THEN [filled |-> FALSE, b |-> b]
       ELSE [filled |-> TRUE,
             b |-> [b EXCEPT !.currentBuff = @ \o SortBckEntries(merged),
                             !.leftovers =
                                [t \in ts |-> [entries |-> <<>>,
                                               done |-> b.leftovers[t].done]]]]

\* queryBuffer.get
BufGet(b, token, size) ==
    IF token < b.nextToken
    THEN [entries |-> <<>>, hasEnough |-> FALSE,
          b |-> [NoBuffer EXCEPT !.nextToken = token]]
    ELSE LET m == MergeTargetBuffers(b)
             entries == AfterToken(m.b.currentBuff, token)
             page == FirstN(entries, size)
         IN IF Len(entries) < size /\ ~m.filled
            THEN [entries |-> <<>>, hasEnough |-> FALSE, b |-> m.b]
            ELSE [entries |-> page, hasEnough |-> TRUE,
                  b |-> [m.b EXCEPT
                            !.currentBuff = SubSeq(entries, Len(page) + 1, Len(entries)),
                            !.nextToken = IF Len(page) > 0 THEN page[Len(page)]
                                          ELSE @]]

\* queryBuffers.last: the token to send to the targets
BufLast(b, token) ==
    IF Len(b.currentBuff) = 0 THEN token
    ELSE IF b.currentBuff[Len(b.currentBuff)] <= token THEN token
    ELSE b.currentBuff[Len(b.currentBuff)]

\* the cache of pages: get
CacheGet(c, token, size) ==
    IF token \in DOMAIN c /\ (Len(c[token].entries) >= size \/ c[token].complete)
    THEN [entries |-> FirstN(c[token].entries, size), hasEnough |-> TRUE]
    ELSE [entries |-> <<>>, hasEnough |-> FALSE]

\* the cache of pages: set
CacheSet(c, token, entries, size) ==
    [k \in (DOMAIN c) \cup {token} |->
        IF k = token THEN [entries |-> entries, complete |-> Len(entries) < size]
        ELSE c[k]]

\* lines 2004-2011: the results of the broadcast are put into the buffer
RECURSIVE BufSetAll(_, _, _, _, _)
BufSetAll(b, ts, dist, token, size) ==
    IF ts = {} THEN b
    ELSE LET t == CHOOSE x \in ts : TRUE
         IN BufSetAll(BufSet(b, t, TargetPage(dist, t, token, size), size),
                      ts \ {t}, dist, token, size)

\* the targets are asked for what follows the token of the request
ListBcastTokenAsked(b, token) == token

\* line 1995: the targets are asked for what follows the buffer
ListBcastToken(b, token) == BufLast(b, token)

\* a continuation token set whenever the page has an entry
ListTokenNonEmpty(entries, pageSize) == Len(entries) >= 1

\* line 2044
ListTokenFull(entries, pageSize) == Len(entries) >= pageSize

\* lines 2039-2047: the page returned
ListPage(entries, pageSize, src) ==
    [entries |-> entries, src |-> src,
     token |-> IF ListTokenFull(entries, pageSize) THEN entries[Len(entries)]
               ELSE NoToken]

\* listObjectsAIS, lines 1960-2049, called with the token of the listing;
\* unread: the targets whose results are not read because a result carries
\* an error (that one and those after it in the channel), none if no
\* result does
listObjectsAIS(l, token, unread) ==
    LET size == l.pageSize
        c == IF l.useCache THEN CacheGet(l.cache, token, size)
             ELSE [entries |-> <<>>, hasEnough |-> FALSE]
        g == BufGet(l.buf, token, size)
        tok == ListBcastToken(g.b, token)
        set == BufSetAll(g.b, ListTargets, l.dist, tok, size)
        g2 == BufGet(set, token, size)
        setCache(entries) == IF l.useCache
                             THEN CacheSet(l.cache, token, entries, size)
                             ELSE l.cache
    IN IF c.hasEnough
       THEN [l EXCEPT !.pages = Append(@, ListPage(c.entries, size, "cache"))]
       ELSE IF g.hasEnough
       THEN [l EXCEPT !.buf = g.b, !.cache = setCache(g.entries),
                      !.pages = Append(@, ListPage(g.entries, size, "buffer"))]
       ELSE IF unread # {}
       THEN [l EXCEPT !.pc = "failed",
                      !.buf = BufSetAll(g.b, ListTargets \ unread, l.dist, tok, size)]
       ELSE [l EXCEPT !.buf = g2.b, !.cache = setCache(g2.entries),
                      !.pages = Append(@, ListPage(g2.entries, size, "bcast"))]

\* the token that the client passes: that of the last page, or none
ListToken == IF Len(ls.pages) = 0 THEN NoToken ELSE ls.pages[Len(ls.pages)].token

\* the client asks for the next page, and stops at an error or at a page
\* without a token
ListNext(unread) ==
    /\ ls.pc = "listing"
    /\ LET l == listObjectsAIS(ls, ListToken, unread)
       IN ls' = IF l.pc = "listing" /\ l.pages[Len(l.pages)].token = NoToken
                THEN [l EXCEPT !.pc = "finished"]
                ELSE l
    /\ UNCHANGED <<smap, bmd, rmd, down, req, msync, waves, rx, fwd, jn, dl, rd, adm>>

\* the pages of the bucket as an earlier listing of the same page size has
\* left some of them in the cache
TruePage(token, size) ==
    FirstN(SortBckEntries({o \in ObjNames : o > token}), size)

ListCaches(size) ==
    {[k \in ks |-> [entries |-> TruePage(k, size),
                    complete |-> Len(TruePage(k, size)) < size]] :
        ks \in SUBSET {k \in 0..MaxObjs : k % size = 0}}

InitList ==
    /\ smap = [p \in Proxies |-> Smap0]
    /\ bmd = [p \in Proxies |-> BMD0]
    /\ rmd = [p \in Proxies |-> RMD0]
    /\ down = {}
    /\ req = [r \in 1..MaxReq |-> IdleReq]
    /\ msync = {}
    /\ waves = <<>>
    /\ rx = [last |-> [op |-> "none"], seen |-> [p \in Proxies |-> RMD0.Version]]
    /\ fwd = [op |-> "none"]
    /\ jn = [cfg |-> [enabled |-> TRUE, tooEarly |-> FALSE], h |-> <<>>]
    /\ dl = [pc |-> "none"]
    /\ rd = [pc |-> "none"]
    /\ adm = [op |-> "none"]
    /\ \E dist \in [ObjNames -> ListTargets], size \in 1..MaxPage,
          useCache \in BOOLEAN :
          \E cache \in IF useCache THEN ListCaches(size)
                       ELSE {[k \in {} |-> <<>>]} :
             ls = [pc |-> "listing", dist |-> dist, pageSize |-> size,
                   useCache |-> useCache, cache |-> cache, buf |-> NoBuffer,
                   pages |-> <<>>]

NextList == \E unread \in SUBSET ListTargets : ListNext(unread)

SpecList == InitList /\ [][NextList]_vars

\* the entries of the pages returned so far, one page after the other
RECURSIVE ListConcat(_, _)
ListConcat(pages, k) ==
    IF k > Len(pages) THEN <<>>
    ELSE pages[k].entries \o ListConcat(pages, k + 1)

\* C16: the pages returned so far to a listing that passes the token of one
\* page to the call for the next list the objects of the bucket in sorted
\* order from the first on, none repeated and none skipped, and the pages
\* of a listing that has ended list every object of the bucket.
ListEveryObjectOnce ==
    LET all == ListConcat(ls.pages, 1)
    IN /\ all = SubSeq(SortBckEntries(ObjNames), 1, Len(all))
       /\ ls.pc = "finished" => all = SortBckEntries(ObjNames)

\* a listing by pages of two has ended after a broadcast for each of two
\* full pages, the objects spread over both targets
ListEndSeen ==
    /\ ls.pc = "finished"
    /\ ls.pageSize = 2
    /\ ~ls.useCache
    /\ \E o \in ObjNames : ls.dist[o] # ls.dist[1]
    /\ Len(ls.pages) >= 3
    /\ ls.pages[1].src = "bcast"
    /\ ls.pages[2].src = "bcast"
    /\ ListConcat(ls.pages, 1) = SortBckEntries(ObjNames)

\* C17: every page returned carries as its continuation token the name of
\* its last entry if it holds at least pageSize entries, and the empty
\* token otherwise, be it served from the cache, the buffer or a broadcast.
ListTokenIffFull ==
    \A k \in DOMAIN ls.pages :
        /\ ls.pages[k].src \in {"cache", "buffer", "bcast"}
        /\ ls.pages[k].token =
              IF Len(ls.pages[k].entries) >= ls.pageSize
              THEN ls.pages[k].entries[Len(ls.pages[k].entries)]
              ELSE NoToken

\* a listing by pages of two has got a full page from the cache and a full
\* page after a broadcast, each with the name of its last entry as token,
\* and has ended with a page of one entry that carries no token
ListSourcesSeen ==
    /\ ls.pc = "finished"
    /\ ls.pageSize = 2
    /\ Len(ls.pages) = 3
    /\ ls.pages[1].src = "cache" /\ ls.pages[1].token = ls.pages[1].entries[2]
    /\ ls.pages[2].src = "bcast" /\ ls.pages[2].token = ls.pages[2].entries[2]
    /\ Len(ls.pages[3].entries) = 1 /\ ls.pages[3].token = NoToken

(***************************************************************************)
(* SpecRecover: recoverBuckets, the BMD rebuilt from those of the targets  *)
(***************************************************************************)
\* the BMDs that a target may report: version 0 is a BMD never written
RecBMDs == {[BMD0 EXCEPT !.UUID = u, !.Version = v] :
               u \in UUIDs, v \in 0..MaxVer}

\* the answers to the broadcast: the BMDs of the targets whose result
\* carries no error
RecAnswers == UNION {[ts -> RecBMDs] : ts \in SUBSET TargetNodes}

\* a primary that has recovered its BMD before, and added a bucket since
BMDRecovered ==
    [BMD0 EXCEPT !.Version = MaxVer + 100 + 1, !.Buckets = {"b"}]

\* lines 3646-3663: the answers carry more than one UUID
RecSlowPath(bmds) ==
    \E s, t \in DOMAIN bmds : bmds[s].UUID # bmds[t].UUID

\* the BMD of the greatest version among the answers of the set ts
RecMaxor(bmds, ts) ==
    bmds[CHOOSE t \in ts : \A o \in ts : bmds[o].Version <= bmds[t].Version]

\* resolveUUIDBMD, lines 3821-3864
resolveUUIDBMD(bmds) ==
    LET mlist == [u \in {bmds[t].UUID : t \in {x \in DOMAIN bmds : bmds[x].Version # 0}} |->
                     {t \in DOMAIN bmds : bmds[t].Version # 0 /\ bmds[t].UUID = u}]
        l == IF DOMAIN mlist = {} THEN 0
             ELSE CHOOSE n \in {Cardinality(mlist[u]) : u \in DOMAIN mlist} :
                     \A u \in DOMAIN mlist : Cardinality(mlist[u]) <= n
        top == {u \in DOMAIN mlist : Cardinality(mlist[u]) = l}
    IN IF DOMAIN mlist = {} THEN [bmd |-> NoMD, err |-> "nobmd"]
       ELSE IF Cardinality(top) > 1 THEN [bmd |-> NoMD, err |-> "split"]
       ELSE LET uuid == CHOOSE u \in top : TRUE
            IN [bmd |-> RecMaxor(bmds, mlist[uuid]),
                err |-> IF Cardinality(DOMAIN mlist) > 1 THEN "differ" ELSE "none"]

\* a recovery that differing UUIDs do not stop, forced or not
RecRefusedNever(force, err) == err = "nobmd" \/ err = "split"

\* lines 3667-3672: the error of resolveUUIDBMD ends the recovery
RecRefused(force, err) ==
    err # "none" /\ (~force \/ err = "nobmd" \/ err = "split")

\* what recoverBuckets has done: the answers, the error returned if any,
\* the BMD of the proxy before, the BMD put and synced if any
RecRec(p, bmds, force, err, put) ==
    adm' = [op |-> "recover", p |-> p, bmds |-> bmds, force |-> force,
            err |-> err, was |-> bmd[p], put |-> put, waves |-> Len(waves)]

\* recoverBuckets, lines 3629-3685.  Without an answer rbmd stays nil and
\* the handler panics at line 3678.
RecoverBuckets(p, bmds, force) ==
    /\ adm.op = "none"
    /\ p \notin down
    /\ IF ForwardCP(p)
       THEN NoChange /\ RecRec(p, bmds, force, "forwarded", NoMD)
       ELSE IF DOMAIN bmds = {}
       THEN NoChange /\ RecRec(p, bmds, force, "panic", NoMD)
       ELSE LET slowp == RecSlowPath(bmds)
                res == IF slowp THEN resolveUUIDBMD(bmds)
                       ELSE [bmd |-> RecMaxor(bmds, DOMAIN bmds), err |-> "none"]
            IN IF RecRefused(force, res.err)
               THEN NoChange /\ RecRec(p, bmds, force, res.err, NoMD)
               ELSE LET rbmd == [res.bmd EXCEPT !.Version = @ + 100]
                    IN /\ bmd' = [bmd EXCEPT ![p] = BmdPut(@, rbmd)]
                       /\ UNCHANGED <<smap, rmd>>
                       /\ SyncOrDie(p, NoMD, rbmd, NoMD)
                       /\ RecRec(p, bmds, force, "none", rbmd)
    /\ UNCHANGED <<req, rx, fwd, jn, dl, rd, ls>>

InitRecover ==
    /\ smap = [p \in Proxies |-> Smap0]
    /\ bmd \in {[p \in Proxies |-> b] : b \in {BMD0, BMDRecovered}}
    /\ rmd = [p \in Proxies |-> RMD0]
    /\ down = {}
    /\ req = [r \in 1..MaxReq |-> IdleReq]
    /\ msync = {}
    /\ waves = <<>>
    /\ AuxIdle

NextRecover ==
    \/ \E p \in Proxies, bmds \in RecAnswers, force \in BOOLEAN :
          RecoverBuckets(p, bmds, force)
    \/ \E m \in msync : MetasyncHandler(m)

SpecRecover == InitRecover /\ [][NextRecover]_vars

\* the primary has run recoverBuckets and the answers carry more than one
\* UUID
RecDiffering ==
    /\ adm.op = "recover"
    /\ adm.err \notin {"forwarded", "panic"}
    /\ \E s, t \in DOMAIN adm.bmds : adm.bmds[s].UUID # adm.bmds[t].UUID

\* the recovery has returned an error, left the BMD of the primary as it
\* was and called no metasync
RecStopped ==
    /\ adm.err # "none"
    /\ adm.put = NoMD
    /\ (adm.p \notin down) => bmd[adm.p] = adm.was
    /\ Len(waves) = adm.waves

\* the targets of the answers ts that hold the UUID u
RecHolders(ts, u) == {t \in ts : adm.bmds[t].UUID = u}

\* among the answers ts, the UUID u is held by more targets than any other
RecMajority(ts, u) ==
    \A o \in UUIDs \ {u} :
        Cardinality(RecHolders(ts, o)) < Cardinality(RecHolders(ts, u))

\* the BMD put and synced is the one of the greatest version among the
\* answers ts of UUID u, its version raised by 100
RecPutHighest(ts, u) ==
    /\ adm.err = "none"
    /\ adm.put # NoMD
    /\ adm.put.UUID = u
    /\ \E t \in RecHolders(ts, u) :
          /\ adm.put = [adm.bmds[t] EXCEPT !.Version = @ + 100]
          /\ \A o \in RecHolders(ts, u) : adm.bmds[o].Version <= adm.bmds[t].Version
    /\ Len(waves) = adm.waves + 1
    /\ waves[Len(waves)].bmd = adm.put

RecWritten == {t \in DOMAIN adm.bmds : adm.bmds[t].Version # 0}

ForceIDs == Proxies \cup {"p9"}
ForceURLs == {""} \cup ForceIDs

\* the cluster has elected p2 while p1 was away
SmapElected == [Smap0 EXCEPT !.Primary = "p2", !.Version = 2]

\* p1 has gone on changing its Smap in the meantime
SmapGoneOn == [Smap0 EXCEPT !.Version = 3]

\* the role of the metasyncer of each proxy
ForceRoles(s) ==
    [p \in Proxies |-> IF isPrimary(s[p], p) THEN "primary" ELSE "nonprimary"]

\* httpdaesetprimaryproxy, lines 2563-2568: a forced request at a proxy that
\* is not primary in its own Smap is answered with an error, and the
\* handler goes on to forcefulJoin
ForceRefused(s, p) == ~isPrimary(s, p)

\* smapFromURL, lines 2483-2504: the Smap of the node at the URL, NoMD if
\* the call fails
smapFromURL(url) ==
    IF url \in Proxies \ down THEN smap[url] ELSE NoMD

\* a check that the node asked for is a proxy of the fetched Smap
ForceVerifiedMember(proxyID, newSmap) == proxyID \in newSmap.Pmap

\* line 2540
ForceVerified(proxyID, newSmap) == proxyID = newSmap.Primary

\* forcefulJoin, lines 2511-2543: the validation
ForceBegin(p, proxyID, candidate) ==
    LET s == smap[p]
        known == GetProxy(s, proxyID)
        url == IF candidate = "" THEN proxyID ELSE candidate
        newSmap == smapFromURL(url)
        rec(pc, err, fetched) ==
            [adm EXCEPT !.op = "forcejoin", !.pc = pc, !.p = p,
                        !.proxyID = proxyID, !.candidate = candidate,
                        !.err = err, !.fetched = fetched, !.was = s,
                        !.roleWas = adm.role[p], !.steps = <<>>]
    IN
    /\ adm.op = "none"
    /\ p \notin down
    /\ adm' = IF p = proxyID THEN rec("failed", "self", NoMD)
              ELSE IF ~known /\ candidate = "" THEN rec("failed", "unknown", NoMD)
              ELSE IF newSmap = NoMD THEN rec("failed", "fetch", NoMD)
              ELSE IF ~ForceVerified(proxyID, newSmap)
              THEN rec("failed", "notprimary", newSmap)
              ELSE rec("verified", "none", newSmap)
    /\ UNCHANGED <<smap, bmd, rmd, down, req, msync, waves, rx, fwd, jn, dl, rd, ls>>

\* line 2545
ForceBecomeNonPrimary ==
    /\ adm.op = "forcejoin" /\ adm.pc = "verified"
    /\ adm.p \notin down
    /\ adm' = [adm EXCEPT !.pc = "nonprimary",
                          !.role = [@ EXCEPT ![adm.p] = "nonprimary"],
                          !.steps = Append(@, "becomeNonPrimary")]
    /\ UNCHANGED <<smap, bmd, rmd, down, req, msync, waves, rx, fwd, jn, dl, rd, ls>>

\* line 2546
ForcePut ==
    /\ adm.op = "forcejoin" /\ adm.pc = "nonprimary"
    /\ adm.p \notin down
    /\ smap' = [smap EXCEPT ![adm.p] = SmapPut(@, adm.fetched)]
    /\ adm' = [adm EXCEPT !.pc = "put", !.steps = Append(@, "put")]
    /\ UNCHANGED <<bmd, rmd, down, req, msync, waves, rx, fwd, jn, dl, rd, ls>>

\* lines 2547-2551: the proxy registers with the new primary, which knows
\* it; the call may fail
ForceRegister(regErr) ==
    /\ adm.op = "forcejoin" /\ adm.pc = "put"
    /\ adm.p \notin down
    /\ adm' = [adm EXCEPT !.pc = "done", !.steps = Append(@, "register"),
                          !.err = IF regErr THEN "register" ELSE "none"]
    /\ UNCHANGED <<smap, bmd, rmd, down, req, msync, waves, rx, fwd, jn, dl, rd, ls>>

InitForce ==
    /\ smap \in {[p \in Proxies |-> IF p = "p1" THEN s
                                    ELSE IF p = "p3" THEN t ELSE SmapElected] :
                    s \in {Smap0, SmapGoneOn}, t \in {Smap0, SmapElected}}
    /\ bmd = [p \in Proxies |-> BMD0]
    /\ rmd = [p \in Proxies |-> RMD0]
    /\ down \in {{}, {"p3"}}
    /\ req = [r \in 1..MaxReq |-> IdleReq]
    /\ msync = {}
    /\ waves = <<>>
    /\ rx = [last |-> [op |-> "none"], seen |-> [p \in Proxies |-> RMD0.Version]]
    /\ fwd = [op |-> "none"]
    /\ jn = [cfg |-> [enabled |-> TRUE, tooEarly |-> FALSE], h |-> <<>>]
    /\ dl = [pc |-> "none"]
    /\ rd = [pc |-> "none"]
    /\ ls = [pc |-> "none"]
    /\ adm = [op |-> "none", pc |-> "none", p |-> NoNode, proxyID |-> NoNode,
              candidate |-> "", err |-> "none", fetched |-> NoMD, was |-> NoMD,
              roleWas |-> "none", steps |-> <<>>, role |-> ForceRoles(smap)]

NextForce ==
    \/ \E p \in Proxies, proxyID \in ForceIDs, candidate \in ForceURLs :
          ForceBegin(p, proxyID, candidate)
    \/ ForceBecomeNonPrimary
    \/ ForcePut
    \/ \E regErr \in BOOLEAN : ForceRegister(regErr)

SpecForce == InitForce /\ [][NextForce]_vars

\* the calls of a forced join, in the order of the code
ForceSteps == <<"becomeNonPrimary", "put", "register">>

\* the validation of the forced join has failed: the Smap and the role of
\* the metasyncer are as they were and none of the calls has been made
ForceFailedLeaves ==
    (adm.op = "forcejoin" /\ adm.pc = "failed") =>
        /\ adm.err \in {"self", "unknown", "fetch", "notprimary"}
        /\ smap[adm.p] = adm.was
        /\ adm.role[adm.p] = adm.roleWas
        /\ adm.steps = <<>>

\* the calls are made in the order of ForceSteps, and only for a candidate
\* that the fetched Smap names as primary
ForceInOrder ==
    (adm.op = "forcejoin" /\ adm.steps # <<>>) =>
        /\ adm.steps = SubSeq(ForceSteps, 1, Len(adm.steps))
        /\ adm.fetched # NoMD
        /\ adm.fetched.Primary = adm.proxyID
        /\ adm.proxyID # adm.p
        /\ adm.role[adm.p] = "nonprimary"

MaxNotify == 3
NotifyErrs == [1..MaxNotify -> BOOLEAN]

\* the ids asked for: the nodes of the cluster and one that no Smap holds
UnregIDs == Nodes \cup {"t9"}

\* httpcludel, lines 3239-3262: the id is looked up and the request is
\* forwarded by a proxy that is not primary
UnregBegin(p, sid) ==
    /\ adm.op = "none"
    /\ p \notin down
    /\ adm' = [op |-> "unreg", p |-> p, sid |-> sid,
               pc |-> IF sid \notin (smap[p].Pmap \cup smap[p].Tmap)
                      THEN "notfound"
                      ELSE IF ForwardCP(p) THEN "forwarded" ELSE "modify",
               status |-> IF sid \notin (smap[p].Pmap \cup smap[p].Tmap)
                          THEN StatusNotFound ELSE StatusOK,
               calls |-> 0, errs |-> [i \in 1..MaxNotify |-> FALSE]]
    /\ UNCHANGED <<smap, bmd, rmd, down, req, msync, waves, rx, fwd, jn, dl, rd, ls>>

\* an unregisterNode that never fails
unregisterStatusOK(res, p, sid) == StatusOK

\* unregisterNode, lines 3288-3343: the status that goes with its error
unregisterStatus(res, p, sid) ==
    IF ~res.err THEN StatusOK
    ELSE IF sid \notin (smap[p].Pmap \cup smap[p].Tmap) THEN StatusNotFound
    ELSE StatusInternalServerError

\* a loop that goes on after a call has succeeded
unregisterCallsAll(known, errs) == IF known THEN MaxNotify ELSE 0

\* unregisterNode, lines 3288-3320: the DELETE calls made to a node of the
\* Smap, until one succeeds
unregisterCalls(known, errs) ==
    IF ~known THEN 0
    ELSE IF \E i \in 1..MaxNotify : ~errs[i]
    THEN CHOOSE i \in 1..MaxNotify : ~errs[i] /\ \A k \in 1..(i - 1) : errs[k]
    ELSE MaxNotify

\* httpcludel, lines 3264-3285: owner.smap.modify with unregisterNode as
\* its pre-callback, under the lock of the Smap owner, and the post-callback
UnregModify(errs) ==
    LET p == adm.p
        sid == adm.sid
        res == unregisterNode(p, smap[p], sid)
        status == unregisterStatus(res, p, sid)
        calls == unregisterCalls(containsID(smap[p], sid), errs)
    IN
    /\ adm.op = "unreg" /\ adm.pc = "modify"
    /\ p \notin down
    /\ IF status # StatusOK
       THEN /\ NoChange
            /\ adm' = [adm EXCEPT !.pc = "rejected", !.status = status,
                                  !.calls = calls, !.errs = errs]
       ELSE /\ CanSync
            /\ smap' = [smap EXCEPT ![p] = res.clone]
            /\ rmd' = [rmd EXCEPT ![p] =
                         IF requiresRebalance(smap[p], res.clone, IsECUsed(bmd[p]))
                         THEN RmdInc(@) ELSE @]
            /\ UNCHANGED bmd
            /\ SyncOrDie(p, res.clone, NoMD,
                         IF rmd'[p] # rmd[p] THEN rmd'[p] ELSE NoMD)
            /\ adm' = [adm EXCEPT !.pc = "done", !.calls = calls, !.errs = errs]
    /\ UNCHANGED <<req, rx, fwd, jn, dl, rd, ls>>

NextUnreg ==
    \/ \E r \in DOMAIN req, p \in Proxies, id \in Proxies : ClientSetPrimary(r, p, id)
    \/ \E r \in DOMAIN req : SetPrimaryBegin(r)
    \/ \E r \in DOMAIN req, n \in Nodes, e \in BOOLEAN : PrepareCall(r, n, e)
    \/ \E r \in DOMAIN req : PrepareDone(r)
    \/ \E r \in DOMAIN req, n \in Nodes, e \in BOOLEAN : CommitCall(r, n, e)
    \/ \E r \in DOMAIN req : CommitDone(r)
    \/ \E m \in msync : MetasyncHandler(m)
    \/ \E p \in Proxies, sid \in UnregIDs : UnregBegin(p, sid)
    \/ \E errs \in NotifyErrs : UnregModify(errs)

\* one change of the primary, and one unregister request
InitUnreg ==
    /\ smap = [p \in Proxies |-> Smap0]
    /\ bmd = [p \in Proxies |-> BMD0]
    /\ rmd = [p \in Proxies |-> RMD0]
    /\ down = {}
    /\ req = <<IdleReq>>
    /\ msync = {}
    /\ waves = <<>>
    /\ AuxIdle

SpecUnreg == InitUnreg /\ [][NextUnreg]_vars

\* the step is one of httpcludel on a request that is to be rejected: the
\* id is not in the Smap of the proxy, or the proxy is not primary, before
\* or after the removal
UnregRejecting ==
    /\ adm' # adm
    /\ adm'.op = "unreg"
    /\ LET p == adm'.p
           sid == adm'.sid
       IN \/ sid \notin (smap[p].Pmap \cup smap[p].Tmap)
          \/ ~isPrimary(smap[p], p)
          \/ ~isPrimary(SmapDel(smap[p], sid), p)

\* C20: a step of httpcludel that rejects the request - the id is not in the
\* Smap (404), or the proxy is not or is no longer primary - leaves the Smap
\* and the RMD of every proxy as they are and sends no metasync.
UnregRejectedLeaves ==
    [][UnregRejecting => UNCHANGED <<smap, rmd, msync, waves>>]_vars

\* the primary has moved away from the proxy between the forwarding check
\* and the modify of an unregister request, which has been rejected with 500
UnregNoLongerPrimarySeen ==
    /\ adm.op = "unreg"
    /\ adm.pc = "rejected"
    /\ adm.status = StatusInternalServerError
    /\ ~isPrimary(smap[adm.p], adm.p)

(***************************************************************************)
(* SpecRem: remote buckets looked up and added on the fly                  *)
(***************************************************************************)
MaxRem == 2

StatusConflict == 409
StatusGone == 410

\* why bck.Init has failed at the caller of try
RemInitErrs == {"remote-missing", "missing", "other"}

\* what the random target answers to the HEAD of the bucket
RemAnswers == {StatusOK, StatusNotFound, StatusGone, StatusInternalServerError}

IdleRem == [pc |-> "idle"]

RemRec(pc, p, b, status, added) ==
    [pc |-> pc, at |-> p, b |-> b, status |-> status, added |-> added]

\* try, lines 3733-3751: the error of bck.Init, the provider and forwardCP
RemTryBegin(i, p, b, initErr, validProvider) ==
    /\ adm.op = "rem"
    /\ adm.h[i].pc = "idle"
    /\ p \notin down
    /\ b \notin bmd[p].Buckets
    /\ adm' = [adm EXCEPT !.h[i] =
                  IF initErr = "missing" THEN RemRec("failed", p, b, StatusNotFound, FALSE)
                  ELSE IF initErr # "remote-missing"
                  THEN RemRec("failed", p, b, StatusBadRequest, FALSE)
                  ELSE IF ~validProvider
                  THEN RemRec("failed", p, b, StatusNotFound, FALSE)
                  ELSE IF ForwardCP(p)
                  THEN RemRec("forwarded", p, b, StatusOK, FALSE)
                  ELSE RemRec("lookup", p, b, StatusOK, FALSE)]
    /\ UNCHANGED <<smap, bmd, rmd, down, req, msync, waves, rx, fwd, jn, dl, rd, ls>>

\* lookup, lines 3787-3815: the error it returns for the answer of the
\* target, "none" when it returns the header
lookup(p, answer) ==
    IF smap[p].Tmap = {} THEN "no-target"
    ELSE IF answer = StatusNotFound THEN "remote-missing"
    ELSE IF answer = StatusGone THEN "offline"
    ELSE IF answer # StatusOK THEN "call"
    ELSE "none"

\* try, lines 3755-3762: the lookup through a random target
RemLookup(i, answer) ==
    LET h == adm.h[i]
        err == lookup(h.at, answer)
    IN
    /\ adm.op = "rem"
    /\ h.pc = "lookup"
    /\ h.at \notin down
    /\ adm' = [adm EXCEPT !.h[i] =
                  IF err = "remote-missing"
                  THEN RemRec("failed", h.at, h.b, StatusNotFound, FALSE)
                  ELSE IF err # "none"
                  THEN RemRec("failed", h.at, h.b, StatusBadRequest, FALSE)
                  ELSE RemRec("create", h.at, h.b, StatusOK, FALSE)]
    /\ UNCHANGED <<smap, bmd, rmd, down, req, msync, waves, rx, fwd, jn, dl, rd, ls>>

\* createBucket: under the lock of the BMD owner the bucket is added unless
\* the BMD has it, and the new BMD is synced
createBucket(p, b) ==
    IF b \in bmd[p].Buckets
    THEN [err |-> "exists", bmd |-> bmd[p]]
    ELSE [err |-> "none", bmd |-> BmdAdd(bmd[p], b)]

\* a try that gives up on any error of createBucket
RemToleratedNone(err) == err = "none"

\* lines 3774-3779: ErrorBucketAlreadyExists does not end the request
RemTolerated(err) == err \in {"none", "exists"}

\* try, lines 3774-3784: createBucket and bck.Init
RemCreate(i) ==
    LET h == adm.h[i]
        p == h.at
        res == createBucket(p, h.b)
    IN
    /\ adm.op = "rem"
    /\ h.pc = "create"
    /\ p \notin down
    /\ bmd' = [bmd EXCEPT ![p] = res.bmd]
    /\ UNCHANGED <<smap, rmd>>
    /\ IF res.err = "none"
       THEN SyncOrDie(p, NoMD, res.bmd, NoMD)
       ELSE UNCHANGED <<down, msync, waves>>
    /\ adm' = [adm EXCEPT !.h[i] =
                  IF ~RemTolerated(res.err)
                  THEN RemRec("failed", p, h.b, StatusConflict, FALSE)
                  ELSE IF h.b \in bmd'[p].Buckets
                  THEN RemRec("done", p, h.b, StatusOK, res.err = "none")
                  ELSE RemRec("failed", p, h.b, StatusBadRequest, FALSE)]
    /\ UNCHANGED <<req, rx, fwd, jn, dl, rd, ls>>

InitRem ==
    /\ smap = [p \in Proxies |-> Smap0]
    /\ bmd = [p \in Proxies |-> BMD0]
    /\ rmd = [p \in Proxies |-> RMD0]
    /\ down = {}
    /\ req = <<IdleReq>>
    /\ msync = {}
    /\ waves = <<>>
    /\ rx = [last |-> [op |-> "none"], seen |-> [p \in Proxies |-> RMD0.Version]]
    /\ fwd = [op |-> "none"]
    /\ jn = [cfg |-> [enabled |-> TRUE, tooEarly |-> FALSE], h |-> <<>>]
    /\ dl = [pc |-> "none"]
    /\ rd = [pc |-> "none"]
    /\ ls = [pc |-> "none"]
    /\ adm = [op |-> "rem", h |-> [i \in 1..MaxRem |-> IdleRem]]

NextRem ==
    \/ \E i \in 1..MaxRem, p \in Proxies, b \in BucketNames,
          initErr \in RemInitErrs, validProvider \in BOOLEAN :
          RemTryBegin(i, p, b, initErr, validProvider)
    \/ \E i \in 1..MaxRem, answer \in RemAnswers : RemLookup(i, answer)
    \/ \E i \in 1..MaxRem : RemCreate(i)
    \/ \E m \in msync : MetasyncHandler(m)

SpecRem == InitRem /\ [][NextRem]_vars

\* the requests that have got past the lookup for bucket b at proxy p and
\* have returned
RemPast(p, b) ==
    {i \in 1..MaxRem : /\ adm.h[i].pc \in {"done", "failed"}
                       /\ adm.h[i].at = p /\ adm.h[i].b = b
                       /\ adm.h[i].status \in {StatusOK, StatusConflict}}

\* C21: of the requests that register the same remote bucket at the
\* primary, one adds the bucket and the others, finding it there, go on as
\* if they had: all end with the bucket initialized, the BMD version has
\* gone up by one for each bucket and one wave has been sent for each; a
\* request whose lookup is answered 404 or 410 adds nothing to the BMD.
RemAddedOnce ==
    /\ \A p \in Proxies, b \in BucketNames :
          RemPast(p, b) # {} =>
             /\ \A i \in RemPast(p, b) : adm.h[i].pc = "done"
             /\ Cardinality({i \in RemPast(p, b) : adm.h[i].added}) = 1
             /\ (p \notin down) => b \in bmd[p].Buckets
    /\ \A p \in Proxies :
          isPrimary(smap[p], p) =>
             /\ bmd[p].Buckets = {b \in BucketNames : RemPast(p, b) # {}}
             /\ bmd[p].Version = BMD0.Version + Cardinality(bmd[p].Buckets)
             /\ Len(waves) = Cardinality(bmd[p].Buckets)

\* two requests have registered the same bucket at the primary, the second
\* finding it there, while no bucket but this one is in the BMD
RemRaceSeen ==
    /\ adm.op = "rem"
    /\ adm.h[1].pc = "done" /\ adm.h[2].pc = "done"
    /\ adm.h[1].b = adm.h[2].b
    /\ adm.h[1].at = adm.h[2].at
    /\ adm.h[1].added /\ ~adm.h[2].added
    /\ bmd[adm.h[1].at].Buckets = {adm.h[1].b}
    /\ Len(waves) = 1

(***************************************************************************)
(* SpecMs: metasyncHandler, one item of the payload after the other        *)
(***************************************************************************)
MaxMs == 2

\* the payloads of the primary: each item is absent or carries a version
\* below, at or above the one that the receivers start with
MsPayloads ==
    [smap : {NoMD} \cup {[Smap0 EXCEPT !.Version = v] : v \in 0..MaxVer},
     rmd : {NoMD} \cup {[RMD0 EXCEPT !.Version = v] : v \in 0..MaxVer},
     bmd : {NoMD} \cup {[BMD0 EXCEPT !.Version = v] : v \in 0..MaxVer}]

\* lines 906-928: the method, the primary's refusal, the payload decoded
MsBegin(p, m) ==
    /\ adm.op = "ms"
    /\ adm.pc \in {"idle", "done", "refused"}
    /\ adm.n < MaxMs
    /\ p \notin down
    /\ adm' = [op |-> "ms", pc |-> IF MetasyncRefused(p) THEN "refused" ELSE "smap",
               p |-> p, m |-> m, n |-> adm.n + 1, errs |-> {},
               was |-> [smap |-> smap[p], rmd |-> rmd[p], bmd |-> bmd[p]]]
    /\ UNCHANGED <<smap, bmd, rmd, down, req, msync, waves, rx, fwd, jn, dl, rd, ls>>

\* a handler that returns at the first item it rejects
MsStopsAtError(errs) == errs = {}

\* lines 935-945 and 960-989: an error is appended to errs and the next
\* item is extracted
MsGoesOn(errs) == TRUE

\* where the handler goes after an item
MsAfter(errs, pc) == IF MsGoesOn(errs) THEN pc ELSE "done"

\* lines 935-958: the Smap of the payload
MsSmap ==
    LET p == adm.p
        res == Synchronize(smap[p], adm.m.smap, TRUE)
        errs == adm.errs \cup (IF adm.m.smap # NoMD /\ res.err THEN {"smap"} ELSE {})
    IN
    /\ adm.op = "ms" /\ adm.pc = "smap"
    /\ p \notin down
    /\ smap' = [smap EXCEPT ![p] = IF adm.m.smap = NoMD THEN @ ELSE res.md]
    /\ adm' = [adm EXCEPT !.errs = errs, !.pc = MsAfter(errs, "rmd")]
    /\ UNCHANGED <<bmd, rmd, down, req, msync, waves, rx, fwd, jn, dl, rd, ls>>

\* lines 960-971: the RMD of the payload
MsRmd ==
    LET p == adm.p
        res == receiveRMD(rmd[p], adm.m.rmd)
        errs == adm.errs \cup (IF adm.m.rmd # NoMD /\ res.err THEN {"rmd"} ELSE {})
    IN
    /\ adm.op = "ms" /\ adm.pc = "rmd"
    /\ p \notin down
    /\ rmd' = [rmd EXCEPT ![p] = IF adm.m.rmd = NoMD THEN @ ELSE res.md]
    /\ adm' = [adm EXCEPT !.errs = errs, !.pc = MsAfter(errs, "bmd")]
    /\ UNCHANGED <<smap, bmd, down, req, msync, waves, rx, fwd, jn, dl, rd, ls>>

\* lines 973-983 and 992-995: the BMD of the payload, and the answer
MsBmd ==
    LET p == adm.p
        res == receiveBMD(bmd[p], adm.m.bmd)
        errs == adm.errs \cup (IF adm.m.bmd # NoMD /\ res.err THEN {"bmd"} ELSE {})
    IN
    /\ adm.op = "ms" /\ adm.pc = "bmd"
    /\ p \notin down
    /\ bmd' = [bmd EXCEPT ![p] = IF adm.m.bmd = NoMD THEN @ ELSE res.md]
    /\ adm' = [adm EXCEPT !.errs = errs, !.pc = "done"]
    /\ UNCHANGED <<smap, rmd, down, req, msync, waves, rx, fwd, jn, dl, rd, ls>>

InitMs ==
    /\ smap = [p \in Proxies |-> Smap0]
    /\ bmd = [p \in Proxies |-> BMD0]
    /\ rmd = [p \in Proxies |-> RMD0]
    /\ down = {}
    /\ req = <<IdleReq>>
    /\ msync = {}
    /\ waves = <<>>
    /\ rx = [last |-> [op |-> "none"], seen |-> [p \in Proxies |-> RMD0.Version]]
    /\ fwd = [op |-> "none"]
    /\ jn = [cfg |-> [enabled |-> TRUE, tooEarly |-> FALSE], h |-> <<>>]
    /\ dl = [pc |-> "none"]
    /\ rd = [pc |-> "none"]
    /\ ls = [pc |-> "none"]
    /\ adm = [op |-> "ms", pc |-> "idle", n |-> 0]

NextMs ==
    \/ \E p \in Proxies, m \in MsPayloads : MsBegin(p, m)
    \/ MsSmap
    \/ MsRmd
    \/ MsBmd

SpecMs == InitMs /\ [][NextMs]_vars

\* the handler is at work on a payload, or has answered
MsAtWork == adm.op = "ms" /\ adm.pc \in {"smap", "rmd", "bmd", "done"}

\* what the proxy held when the handler began
MsHeld(x) == adm.was[x]

\* what the proxy holds of the kind x
MsHolds(x) ==
    IF x = "smap" THEN smap[adm.p] ELSE IF x = "rmd" THEN rmd[adm.p] ELSE bmd[adm.p]

\* the item x of the payload is newer than what the proxy held
MsNewer(x) == adm.m[x] # NoMD /\ adm.m[x].Version > MsHeld(x).Version

\* the item x of the payload is older than what the proxy held
MsOlder(x) == adm.m[x] # NoMD /\ adm.m[x].Version < MsHeld(x).Version

Fairness ==
    /\ WF_vars(\E r \in DOMAIN req : SetPrimaryBegin(r))
    /\ WF_vars(\E r \in DOMAIN req, n \in Nodes : PrepareCall(r, n, FALSE))
    /\ WF_vars(\E r \in DOMAIN req : PrepareDone(r))
    /\ WF_vars(\E r \in DOMAIN req, n \in Nodes : CommitCall(r, n, FALSE))
    /\ WF_vars(\E r \in DOMAIN req : CommitDone(r))
    /\ WF_vars(\E m \in msync : MetasyncHandler(m))

\* the steps of the primary change when no call fails on its way
NextLive ==
    \/ \E r \in DOMAIN req, p \in Proxies, id \in Proxies : ClientSetPrimary(r, p, id)
    \/ \E r \in DOMAIN req : SetPrimaryBegin(r)
    \/ \E r \in DOMAIN req, n \in Nodes : PrepareCall(r, n, FALSE)
    \/ \E r \in DOMAIN req : PrepareDone(r)
    \/ \E r \in DOMAIN req, n \in Nodes : CommitCall(r, n, FALSE)
    \/ \E r \in DOMAIN req : CommitDone(r)
    \/ \E m \in msync : MetasyncHandler(m)

SpecLive == Init /\ [][NextLive]_vars /\ Fairness

SpecConcLive == InitConc /\ [][NextLive]_vars /\ Fairness

\* the change of request r has made it: it went through both phases and no
\* prepare and no commit call failed
ChangeSucceeded(r) ==
    /\ r \in DOMAIN req
    /\ req[r].pc = "done"
    /\ req[r].applied # {}
    /\ req[r].prepErrs = {}
    /\ req[r].commitErrs = {}

\* every running proxy holds an Smap that names the new primary of request
\* r, and the Smap of the new primary is 100 versions at least above the
\* one the cluster started with
ChangeSettled(r) ==
    /\ r \in DOMAIN req
    /\ req[r].id \in Proxies
    /\ \A p \in Proxies \ down : smap[p].Primary = req[r].id
    /\ smap[req[r].id].Version >= Smap0.Version + 100

\* C23: from the moment a primary change has succeeded, eventually every
\* proxy holds an Smap that names the new primary, and the Smap of the new
\* primary is at least 100 versions above the one it held before.
PrimaryChangeSettles ==
    \A r \in 1..MaxConc :
        <>ChangeSucceeded(r) => <>(ChangeSucceeded(r) /\ <>ChangeSettled(r))

(***************************************************************************)
(* SpecSync: a join while the primary changes                              *)
(***************************************************************************)
\* one join, of a node that the cluster knows, and one change of the primary
InitSync ==
    /\ smap = [p \in Proxies |-> Smap0]
    /\ bmd = [p \in Proxies |-> BMD0]
    /\ rmd = [p \in Proxies |-> RMD0]
    /\ down = {}
    /\ req = <<IdleReq>>
    /\ msync = {}
    /\ waves = <<>>
    /\ rx = [last |-> [op |-> "none"], seen |-> [p \in Proxies |-> RMD0.Version]]
    /\ fwd = [op |-> "none"]
    /\ dl = [pc |-> "none"]
    /\ rd = [pc |-> "none"]
    /\ ls = [pc |-> "none"]
    /\ adm = [op |-> "none"]
    /\ jn = [cfg |-> [enabled |-> TRUE, tooEarly |-> FALSE], h |-> <<IdleJoin>>]

NextSync ==
    \/ \E r \in DOMAIN req, p \in Proxies, id \in Proxies : ClientSetPrimary(r, p, id)
    \/ \E r \in DOMAIN req : SetPrimaryBegin(r)
    \/ \E r \in DOMAIN req, n \in Nodes, e \in BOOLEAN : PrepareCall(r, n, e)
    \/ \E r \in DOMAIN req : PrepareDone(r)
    \/ \E r \in DOMAIN req, n \in Nodes, e \in BOOLEAN : CommitCall(r, n, e)
    \/ \E r \in DOMAIN req : CommitDone(r)
    \/ \E m \in msync : MetasyncHandler(m)
    \/ \E j \in DOMAIN jn.h, p \in Proxies, nsi \in Joiners \cap Nodes,
          kind \in JoinKinds : HttpCluPost(j, p, nsi, kind)
    \/ \E j \in DOMAIN jn.h : UpdatePre(j)
    \/ \E j \in DOMAIN jn.h : UpdatePost(j)

SpecSync == InitSync /\ [][NextSync]_vars

\* C24: metasyncer.sync is called by none but a proxy that is primary in
\* its Smap, so that no proxy exits on the assertion of the sender: a proxy
\* exits only as the coordinator of a primary change whose commit has
\* failed on the new primary.
SyncOnlyByPrimary ==
    \A p \in down : \E r \in DOMAIN req : req[r].pc = "fatal" /\ req[r].at = p

(***************************************************************************)
(* The pool of call results in the downloader's broadcasts                 *)
(***************************************************************************)
\* drainCallResults(first, rest): what it releases when the loop stops at
\* the result at: that result and those still in the channel
drainCallResults(at, respCnt) == at..respCnt

\* broadcastDownloadAdminRequest, lines 67-81: how often each result read
\* from the channel is handed to freeCallRes, by the loop or by
\* drainCallResults; a result with status 200 is appended to validResponses
\* and no line after the loop releases it
DlAdminFreed(results) ==
    LET scan == DlScan(results, 1, <<>>, 0)
    IN [i \in DOMAIN results |->
           IF scan.abort /\ i \in drainCallResults(scan.at, Len(results)) THEN 1
           ELSE IF results[i].status = StatusNotFound THEN 1
           ELSE 0]

\* broadcastStartDownloadRequest, lines 140-148: a result without an error
\* is released in the loop, the first with an error and the rest by
\* drainCallResults
DlStartFreed(results) ==
    LET at == DlStartScan(results, 1)
    IN [i \in DOMAIN results |->
           IF at # 0 /\ i \in drainCallResults(at, Len(results)) THEN 1
           ELSE IF at = 0 \/ i < at THEN 1
           ELSE 0]

\* how often each result of the broadcast just served was released
DlFreed ==
    IF dl.pc = "started" THEN DlStartFreed(dl.results)
    ELSE DlAdminFreed(dl.results)

\* C25: when a broadcast of the downloader has returned, every result that
\* came out of the channel, those with status 200 included, has been
\* released to the pool once.
DlResultsReleasedOnce ==
    (dl.pc \in {"done", "started"} /\ dl.out.bcast) =>
        \A i \in DOMAIN dl.results : DlFreed[i] = 1

(***************************************************************************)
(* The lock of the BMD owner in handlePendingRenamedLB                     *)
(***************************************************************************)
\* handlePendingRenamedLB, lines 2288-2308: how often the lock taken at
\* line 2289 is unlocked, by the deferred call of line 2290 and by line
\* 2299, when the request names bucket b and the proxy holds the BMD cur
HplUnlocks(cur, b) ==
    IF b \notin cur.Buckets THEN 1
    ELSE IF b \notin cur.Renamed THEN 1 + 1
    ELSE 1

\* C26: every run of handlePendingRenamedLB unlocks the lock of the BMD
\* owner once: when the bucket is gone, when it is there without the
\* Renamed property, and when it is removed.
HplUnlocksOnce ==
    [][\A p \in Proxies, b \in BucketNames :
          HandlePendingRenamedLB(p, b) => HplUnlocks(bmd[p], b) = 1]_vars

(***************************************************************************)
(* SpecRp: forwardCP and the reverse proxy to the primary                  *)
(***************************************************************************)
\* requests that pass through forwardCP
MaxFwdReq == 2

IdleRp == [pc |-> "idle"]

\* p.rproxy.primary before the first forwarded request
NoRp == [url |-> "", rp |-> ""]

\* lines 1743-1756: the request reads the Smap of p once; the primary serves
\* the request itself (forf = false)
RpSnapshot(i, p) ==
    /\ adm.op = "rp"
    /\ adm.h[i].pc = "idle"
    /\ p \notin down
    /\ adm' = [adm EXCEPT !.h[i] =
                 [pc |-> IF isPrimary(smap[p], p) THEN "local" ELSE "update",
                  at |-> p, primary |-> smap[p].Primary, via |-> ""]]
    /\ UNCHANGED <<smap, bmd, rmd, down, req, msync, waves, rx, fwd, jn, dl, rd, ls>>

\* lines 1766-1779: under primary.Lock, the url and the reverse proxy are
\* replaced when the url differs from that of the primary of the snapshot
RpUpdate(i) ==
    /\ adm.op = "rp"
    /\ adm.h[i].pc = "update"
    /\ LET p == adm.h[i].at
           u == NodeURL(adm.h[i].primary, NetworkPublic)
       IN adm' = [adm EXCEPT !.h[i].pc = "serve",
                             !.primary[p] = IF @.url # u
                                            THEN [url |-> u, rp |-> u] ELSE @]
    /\ UNCHANGED <<smap, bmd, rmd, down, req, msync, waves, rx, fwd, jn, dl, rd, ls>>

\* line 1789: primary.rp is read after primary.Unlock
RpServe(i) ==
    /\ adm.op = "rp"
    /\ adm.h[i].pc = "serve"
    /\ adm' = [adm EXCEPT !.h[i].pc = "done",
                          !.h[i].via = adm.primary[adm.h[i].at].rp]
    /\ UNCHANGED <<smap, bmd, rmd, down, req, msync, waves, rx, fwd, jn, dl, rd, ls>>

\* one change of the primary, and MaxFwdReq requests to forward
InitRp ==
    /\ smap = [p \in Proxies |-> Smap0]
    /\ bmd = [p \in Proxies |-> BMD0]
    /\ rmd = [p \in Proxies |-> RMD0]
    /\ down = {}
    /\ req = <<IdleReq>>
    /\ msync = {}
    /\ waves = <<>>
    /\ rx = [last |-> [op |-> "none"], seen |-> [p \in Proxies |-> RMD0.Version]]
    /\ fwd = [op |-> "none"]
    /\ jn = [cfg |-> [enabled |-> TRUE, tooEarly |-> FALSE], h |-> <<>>]
    /\ dl = [pc |-> "none"]
    /\ rd = [pc |-> "none"]
    /\ ls = [pc |-> "none"]
    /\ adm = [op |-> "rp", primary |-> [p \in Proxies |-> NoRp],
              h |-> [i \in 1..MaxFwdReq |-> IdleRp]]

NextRp ==
    \/ \E r \in DOMAIN req, p \in Proxies, id \in Proxies : ClientSetPrimary(r, p, id)
    \/ \E r \in DOMAIN req : SetPrimaryBegin(r)
    \/ \E r \in DOMAIN req, n \in Nodes, e \in BOOLEAN : PrepareCall(r, n, e)
    \/ \E r \in DOMAIN req : PrepareDone(r)
    \/ \E r \in DOMAIN req, n \in Nodes, e \in BOOLEAN : CommitCall(r, n, e)
    \/ \E r \in DOMAIN req : CommitDone(r)
    \/ \E m \in msync : MetasyncHandler(m)
    \/ \E i \in 1..MaxFwdReq, p \in Proxies : RpSnapshot(i, p)
    \/ \E i \in 1..MaxFwdReq : RpUpdate(i)
    \/ \E i \in 1..MaxFwdReq : RpServe(i)

SpecRp == InitRp /\ [][NextRp]_vars

\* C27: a request that forwardCP has forwarded was served by a reverse proxy
\* that points at the public URL of the primary of the Smap snapshot which
\* this request read, also when requests holding snapshots with different
\* primaries pass through forwardCP at the same time.
ForwardedToSnapshotPrimary ==
    \A i \in 1..MaxFwdReq :
        (adm.op = "rp" /\ adm.h[i].pc = "done")
            => adm.h[i].via = NodeURL(adm.h[i].primary, NetworkPublic)

(***************************************************************************)
(* SpecRv: the per-node reverse proxies                                    *)
(***************************************************************************)
\* the Node-Id header: a node of the cluster or a node outside of it
RvIDs == Nodes \cup {"t9"}
\* the Node-URL header, absent or present
RvURLs == {"", "http://t9"}
\* remote clusters of the configuration
RemoteUUIDs == {"remoteB"}
\* requests to reverse-proxy
MaxRv == 2

\* reverseRequest, lines 1800-1819: the reverse proxy of the key is created
\* on demand and kept in rproxy.nodes
reverseRequest(p, nodeID) ==
    adm' = [adm EXCEPT !.nodes[p] = @ \cup {nodeID}, !.n = @ + 1]

\* reverseHandler, lines 2230-2264
ReverseHandler(p, nodeID, nodeURL) ==
    /\ adm.op = "rv" /\ adm.n < MaxRv
    /\ p \notin down
    /\ IF containsID(smap[p], nodeID)
       THEN reverseRequest(p, nodeID)
       ELSE IF nodeURL = ""
       THEN adm' = [adm EXCEPT !.n = @ + 1]
       ELSE reverseRequest(p, nodeID)
    /\ UNCHANGED <<smap, bmd, rmd, down, req, msync, waves, rx, fwd, jn, dl, rd, ls>>

\* reverseReqRemote, lines 1821-1860: the key is the UUID of the remote cluster
ReverseReqRemote(p, remoteUUID, configured) ==
    /\ adm.op = "rv" /\ adm.n < MaxRv
    /\ p \notin down
    /\ IF configured
       THEN reverseRequest(p, remoteUUID)
       ELSE adm' = [adm EXCEPT !.n = @ + 1]
    /\ UNCHANGED <<smap, bmd, rmd, down, req, msync, waves, rx, fwd, jn, dl, rd, ls>>

InitRv ==
    /\ smap = [p \in Proxies |-> Smap0]
    /\ bmd = [p \in Proxies |-> BMD0]
    /\ rmd = [p \in Proxies |-> RMD0]
    /\ down = {}
    /\ req = <<>>
    /\ msync = {}
    /\ waves = <<>>
    /\ rx = [last |-> [op |-> "none"], seen |-> [p \in Proxies |-> RMD0.Version]]
    /\ fwd = [op |-> "none"]
    /\ jn = [cfg |-> [enabled |-> TRUE, tooEarly |-> FALSE], h |-> <<>>]
    /\ dl = [pc |-> "none"]
    /\ rd = [pc |-> "none"]
    /\ ls = [pc |-> "none"]
    /\ adm = [op |-> "rv", nodes |-> [p \in Proxies |-> {}], n |-> 0]

NextRv ==
    \/ \E p \in Proxies, nodeID \in RvIDs, nodeURL \in RvURLs :
          ReverseHandler(p, nodeID, nodeURL)
    \/ \E p \in Proxies, u \in RemoteUUIDs, c \in BOOLEAN : ReverseReqRemote(p, u, c)
    \/ \E p \in Proxies, sid \in Nodes : HttpCluDel(p, sid)
    \/ \E m \in msync : MetasyncHandler(m)

SpecRv == InitRv /\ [][NextRv]_vars

\* C28: when a proxy, the primary or another, has installed a new Smap, every
\* key of its rproxy.nodes is the id of a node of that Smap, whichever way
\* the entry was made (a node of the Smap, the Node-URL header, a remote
\* cluster).
RproxyNodesInSmap ==
    [][\A p \in Proxies :
          (adm.op = "rv" /\ smap'[p] # smap[p])
              => \A k \in adm'.nodes[p] : containsID(smap'[p], k)]_vars

(***************************************************************************)
(* SpecBckPost: the bucket actions of POST /v1/buckets/<name>              *)
(***************************************************************************)
BckActions == {"renamelb", "copybck", "registercb", "prefetch", "listobj",
               "invallistobjcache", "summarybck", "makencopies", "ecencode"}

Accesses == {"RENAME", "GET", "SYNC", "CREATE", "LIST", "HEAD", "MAKENCOPIES", "EC"}

\* what the token of the request grants, and what the allow-bits of a
\* bucket grant
Grants == {{}, Accesses}

\* the destination of rename and copy in the BMD
DstCases == {"absent", "initerr", "allowed", "denied"}

BckRet(status, reached, perm, allow) ==
    [status |-> status, reached |-> reached, perm |-> perm, allow |-> allow]

\* checkPermissions(query, header, bck, access) and bck.Allow(access)
checkPermissions(token, access) == access \in token
Allow(bits, access) == access \in bits

\* a case of the switch that asks the token for access pa and the bucket for
\* access aa, with the checks of the arguments in between or after
BckBoth(token, bits, pa, aa, argsOK) ==
    IF ~checkPermissions(token, pa) THEN BckRet(StatusUnauthorized, FALSE, FALSE, FALSE)
    ELSE IF ~Allow(bits, aa) THEN BckRet(StatusForbidden, FALSE, TRUE, FALSE)
    ELSE IF ~argsOK THEN BckRet(StatusBadRequest, FALSE, TRUE, TRUE)
    ELSE BckRet(StatusOK, TRUE, TRUE, TRUE)

\* httpbckpost from "4. {action} on bucket", lines 1194-1360: the status,
\* whether the workflow of the action was called, and whether the token
\* check and the allow-bits check of the bucket ran and succeeded
httpbckpost(action, token, bits, isAIS, sameName, dst) ==
    CASE action = "renamelb" ->
           IF ~checkPermissions(token, "RENAME")
           THEN BckRet(StatusUnauthorized, FALSE, FALSE, FALSE)
           ELSE IF ~isAIS THEN BckRet(StatusBadRequest, FALSE, TRUE, FALSE)
           ELSE BckBoth(token, bits, "RENAME", "RENAME",
                        ~sameName /\ dst = "absent")
      [] action = "copybck" ->
           IF ~checkPermissions(token, "GET")
           THEN BckRet(StatusUnauthorized, FALSE, FALSE, FALSE)
           ELSE IF sameName THEN BckRet(StatusBadRequest, FALSE, TRUE, FALSE)
           ELSE IF dst = "denied" THEN BckRet(StatusForbidden, FALSE, TRUE, FALSE)
           ELSE BckRet(StatusOK, TRUE, TRUE, FALSE)
      [] action = "registercb" ->
           IF ~checkPermissions(token, "CREATE")
           THEN BckRet(StatusUnauthorized, FALSE, FALSE, FALSE)
           ELSE BckRet(StatusOK, TRUE, TRUE, FALSE)
      [] action = "prefetch" ->
           IF ~checkPermissions(token, "GET")
           THEN BckRet(StatusUnauthorized, FALSE, FALSE, FALSE)
           ELSE IF isAIS THEN BckRet(StatusBadRequest, FALSE, TRUE, FALSE)
           ELSE BckBoth(token, bits, "GET", "SYNC", TRUE)
      [] action = "listobj" -> BckBoth(token, bits, "LIST", "LIST", TRUE)
      [] action = "invallistobjcache" ->
           IF ~Allow(bits, "LIST")
           THEN BckRet(StatusForbidden, FALSE, FALSE, FALSE)
           ELSE BckRet(StatusOK, TRUE, FALSE, TRUE)
      [] action = "summarybck" -> BckBoth(token, bits, "LIST", "HEAD", TRUE)
      [] action = "makencopies" ->
           BckBoth(token, bits, "MAKENCOPIES", "MAKENCOPIES", TRUE)
      [] action = "ecencode" -> BckBoth(token, bits, "EC", "EC", TRUE)

HttpBckPost(action, token, bits, isAIS, sameName, dst) ==
    /\ adm.op = "bckpost"
    /\ adm' = [op |-> "bckpost", action |-> action, token |-> token,
               bits |-> bits, isAIS |-> isAIS, sameName |-> sameName, dst |-> dst,
               ret |-> httpbckpost(action, token, bits, isAIS, sameName, dst)]
    /\ UNCHANGED <<smap, bmd, rmd, down, req, msync, waves, rx, fwd, jn, dl, rd, ls>>

InitBckPost ==
    /\ smap = [p \in Proxies |-> Smap0]
    /\ bmd = [p \in Proxies |-> BMD0]
    /\ rmd = [p \in Proxies |-> RMD0]
    /\ down = {}
    /\ req = <<>>
    /\ msync = {}
    /\ waves = <<>>
    /\ rx = [last |-> [op |-> "none"], seen |-> [p \in Proxies |-> RMD0.Version]]
    /\ fwd = [op |-> "none"]
    /\ jn = [cfg |-> [enabled |-> TRUE, tooEarly |-> FALSE], h |-> <<>>]
    /\ dl = [pc |-> "none"]
    /\ rd = [pc |-> "none"]
    /\ ls = [pc |-> "none"]
    /\ adm = [op |-> "bckpost", action |-> "none", token |-> {}, bits |-> {},
              isAIS |-> TRUE, sameName |-> FALSE, dst |-> "absent",
              ret |-> BckRet(StatusOK, FALSE, FALSE, FALSE)]

NextBckPost ==
    \E action \in BckActions, token \in Grants, bits \in Grants,
       isAIS \in BOOLEAN, sameName \in BOOLEAN, dst \in DstCases :
        HttpBckPost(action, token, bits, isAIS, sameName, dst)

SpecBckPost == InitBckPost /\ [][NextBckPost]_vars

\* C29: a bucket action of POST /v1/buckets/<name> reaches its workflow only
\* after the token check (checkPermissions) and the allow-bits check
\* (bck.Allow) have both succeeded for the bucket of the request.
BckActionAfterBothChecks ==
    (adm.op = "bckpost" /\ adm.ret.reached) => (adm.ret.perm /\ adm.ret.allow)

(***************************************************************************)
(* SpecKa: keepalive and join of nodes whose descriptors may have changed  *)
(***************************************************************************)
\* requests served
MaxKa == 2

\* the nodes that send: a target and a proxy of the Smap, a target outside
KaIDs == {"t1", "p2", "t2"}

\* a node descriptor (Snode): the id and the network information, of which
\* there are two variants
NetInfos == {"net-a", "net-b"}
Descs == [id : KaIDs, net : NetInfos]
RegDesc(n) == [id |-> n, net |-> "net-a"]

\* the call of detectDaemonDuplicate to the old URL: no answer, or the
\* descriptor of the node that listens there
NoAnswer == [id |-> NoNode, net |-> "none"]
KaAnswers == {NoAnswer} \cup Descs

\* Snode.Equals
Equals(osi, nsi) == osi = nsi

\* a duplicate whenever the old URL answers
detectDaemonDuplicateAny(nsi, answer) == answer # NoAnswer

\* detectDaemonDuplicate, lines 3601-3620
detectDaemonDuplicate(nsi, answer) ==
    IF answer = NoAnswer THEN FALSE ELSE ~Equals(nsi, answer)

\* handleJoinKalive, lines 3077-3143, at the primary of a started cluster:
\* cie is the error of validateUUID, dupURL that of IsDuplicateURL
handleJoinKaliveOf(known, target, equal, dup, keepalive, cie, dupURL) ==
    IF ~(IF target
         THEN ~(keepalive /\ ~addOrUpdateNode(known, equal, dup, keepalive))
         ELSE addOrUpdateNode(known, equal, dup, keepalive))
    THEN [update |-> FALSE, err |-> FALSE]
    ELSE IF cie \/ dupURL
    THEN [update |-> FALSE, err |-> TRUE]
    ELSE [update |-> TRUE, err |-> FALSE]

\* line 3221: keepalive.heardFrom is called for the keepalive of a known
\* node with the registered descriptor
HeardFrom(known, equal, keepalive) == keepalive /\ known /\ equal

\* httpclupost, lines 2979-3074, up to the start of updateAndDistribute
KaCluPost(j, p, nsi, kind, answer, cie, dupURL) ==
    LET known == containsID(smap[p], nsi.id)
        equal == known /\ Equals(adm.reg[nsi.id], nsi)
        keepalive == kind = "keepalive"
        res == handleJoinKaliveOf(known, IsTarget(nsi.id), equal,
                                  detectDaemonDuplicate(nsi, answer),
                                  keepalive, cie, dupURL)
    IN
    /\ adm.op = "ka"
    /\ jn.h[j].pc = "idle"
    /\ \A i \in 1..(j - 1) : jn.h[i].pc # "idle"    \* j numbers the requests
    /\ p \notin down
    /\ jn' = [jn EXCEPT !.h[j] =
                IF ForwardCP(p)
                THEN [pc |-> "forwarded", at |-> p, nsi |-> nsi.id]
                ELSE IF ~res.update
                THEN [pc |-> "noupdate", at |-> p, nsi |-> nsi.id]
                ELSE [pc |-> "update", at |-> p, nsi |-> nsi.id, snap |-> smap[p]]]
    /\ adm' = [adm EXCEPT
                 !.heard = IF ~ForwardCP(p) /\ HeardFrom(known, equal, keepalive)
                           THEN @ \cup {nsi.id} ELSE @,
                 !.h[j] = [nsi |-> nsi, kind |-> kind, osi |-> adm.reg[nsi.id],
                           err |-> ~ForwardCP(p) /\ res.err]]
    /\ UNCHANGED <<smap, bmd, rmd, down, req, msync, waves, rx, fwd, dl, rd, ls>>

InitKa ==
    /\ smap = [p \in Proxies |-> Smap0]
    /\ bmd = [p \in Proxies |-> BMD0]
    /\ rmd = [p \in Proxies |-> RMD0]
    /\ down = {}
    /\ req = <<>>
    /\ msync = {}
    /\ waves = <<>>
    /\ rx = [last |-> [op |-> "none"], seen |-> [p \in Proxies |-> RMD0.Version]]
    /\ fwd = [op |-> "none"]
    /\ jn = [cfg |-> [enabled |-> TRUE, tooEarly |-> FALSE],
             h |-> [j \in 1..MaxKa |-> IdleJoin]]
    /\ dl = [pc |-> "none"]
    /\ rd = [pc |-> "none"]
    /\ ls = [pc |-> "none"]
    /\ adm = [op |-> "ka", reg |-> [n \in KaIDs |-> RegDesc(n)], heard |-> {},
              h |-> [j \in 1..MaxKa |-> [kind |-> "none"]]]

NextKa ==
    \/ \E j \in DOMAIN jn.h, p \in Proxies, nsi \in Descs, kind \in JoinKinds,
          answer \in KaAnswers, cie \in BOOLEAN, dupURL \in BOOLEAN :
          KaCluPost(j, p, nsi, kind, answer, cie, dupURL)
    \/ \E j \in DOMAIN jn.h : UpdatePre(j)
    \/ \E j \in DOMAIN jn.h : UpdatePost(j)
    \/ \E m \in msync : MetasyncHandler(m)

SpecKa == InitKa /\ [][NextKa]_vars

\* the keepalive that KaCluPost serves comes from a node of the Smap of the
\* primary p
KaKnown(p, nsi) == ~ForwardCP(p) /\ containsID(smap[p], nsi.id)

\* the step is KaCluPost serving request j at p for the descriptor nsi
KaServed(j, p, nsi) ==
    /\ jn.h[j].pc = "idle" /\ jn'.h[j].pc # "idle"
    /\ jn'.h[j].at = p /\ adm'.h[j].nsi = nsi

\* the step has left the node, the Smap and the RMD as they were and asks
\* for no update
KaLeft(j) ==
    /\ jn'.h[j].pc = "noupdate"
    /\ <<smap', rmd', adm'.reg>> = <<smap, rmd, adm.reg>>

\* C30 as stated: a keepalive from a known node with a changed descriptor is
\* rejected (node not updated, Smap unchanged) when the old URL answers with
\* the same id and accepted otherwise, also when the old URL does not
\* answer; with the registered descriptor it only records a heartbeat.
KaliveRejectedIffSameID ==
    [][\A j \in 1..MaxKa, p \in Proxies, nsi \in Descs :
          KaServed(j, p, nsi) =>
          \A answer \in KaAnswers, cie \in BOOLEAN, dupURL \in BOOLEAN :
          (KaCluPost(j, p, nsi, "keepalive", answer, cie, dupURL) /\ KaKnown(p, nsi))
              => IF Equals(adm.reg[nsi.id], nsi)
                 THEN KaLeft(j) /\ adm'.heard = adm.heard \cup {nsi.id}
                 ELSE IF answer # NoAnswer /\ answer.id = nsi.id
                 THEN KaLeft(j)
                 ELSE jn'.h[j].pc = "update"]_vars

\* C30, amended: the keepalive with a changed descriptor is rejected, with
\* no error, when the old URL answers with a descriptor that differs from
\* the one of the keepalive, whatever its id; when the old URL does not
\* answer or answers with the descriptor of the keepalive, the node is
\* accepted if the UUID check and the duplicate-URL check pass and refused
\* with an error if not; with the registered descriptor the keepalive only
\* records a heartbeat.
KaliveRejectedIffOtherDescriptor ==
    [][\A j \in 1..MaxKa, p \in Proxies, nsi \in Descs :
          KaServed(j, p, nsi) =>
          \A answer \in KaAnswers, cie \in BOOLEAN, dupURL \in BOOLEAN :
          (KaCluPost(j, p, nsi, "keepalive", answer, cie, dupURL) /\ KaKnown(p, nsi))
              => IF Equals(adm.reg[nsi.id], nsi)
                 THEN /\ KaLeft(j) /\ ~adm'.h[j].err
                      /\ adm'.heard = adm.heard \cup {nsi.id}
                 ELSE IF answer # NoAnswer /\ answer # nsi
                 THEN KaLeft(j) /\ ~adm'.h[j].err /\ adm'.heard = adm.heard
                 ELSE IF cie \/ dupURL
                 THEN KaLeft(j) /\ adm'.h[j].err
                 ELSE jn'.h[j].pc = "update" /\ ~adm'.h[j].err]_vars

\* a keepalive with a changed descriptor was accepted and the descriptor
\* registered, and then a keepalive of the same node with its former
\* descriptor was left without an update
KaliveRenewedSeen ==
    /\ adm.op = "ka"
    /\ \E i, j \in 1..MaxKa :
          /\ i # j
          /\ adm.h[i].kind = "keepalive" /\ jn.h[i].pc = "done"
          /\ adm.h[i].osi # adm.h[i].nsi
          /\ adm.reg[adm.h[i].nsi.id] = adm.h[i].nsi
          /\ adm.h[j].kind = "keepalive" /\ jn.h[j].pc = "noupdate"
          /\ adm.h[j].nsi = adm.h[i].osi
          /\ adm.h[j].osi = adm.h[i].nsi
          /\ ~adm.h[j].err

(***************************************************************************)
(* The notifications of unregisterNode                                     *)
(***************************************************************************)
\* the unregister request has run unregisterNode at a proxy that was primary
\* and held the node when modify began
UnregRan ==
    /\ adm.op = "unreg"
    /\ adm.pc \in {"done", "rejected"}
    /\ adm.calls > 0

\* C31: the primary that unregisters a node of its Smap sends the leaving
\* node at most 3 DELETE notifications and none after the first that
\* succeeds, and removes the node from its Smap whatever the notifications
\* have returned.
UnregNotifiesThenRemoves ==
    [][(/\ adm.op = "unreg" /\ adm.pc = "modify" /\ adm'.pc # "modify"
        /\ isPrimary(smap[adm.p], adm.p)
        /\ containsID(smap[adm.p], adm.sid))
          => /\ adm'.calls \in 1..3
             /\ \A i \in 1..(adm'.calls - 1) : adm'.errs[i]
             /\ adm'.calls < 3 => ~adm'.errs[adm'.calls]
             /\ ~containsID(smap'[adm.p], adm.sid)]_vars

\* a node has been removed after three notifications that all failed
UnregUnheardSeen ==
    /\ UnregRan
    /\ adm.pc = "done"
    /\ adm.calls = 3
    /\ \A i \in 1..3 : adm.errs[i]
    /\ ~containsID(smap[adm.p], adm.sid)

(***************************************************************************)
(* SpecIC: the information council while a proxy joins and the primary     *)
(* changes                                                                 *)
(***************************************************************************)
\* two proxies form the council; "p3" runs and has not joined
SmapIC0 ==
    [Version |-> 1, Primary |-> "p1", Pmap |-> {"p1", "p2"}, Tmap |-> Targets,
     IC |-> [q \in {"p1", "p2"} |-> 1]]

ICJoiners == {"p3", "t1"}

InitIC ==
    /\ smap = [p \in Proxies |-> SmapIC0]
    /\ bmd = [p \in Proxies |-> BMD0]
    /\ rmd = [p \in Proxies |-> RMD0]
    /\ down = {}
    /\ req = <<IdleReq>>
    /\ msync = {}
    /\ waves = <<>>
    /\ rx = [last |-> [op |-> "none"], seen |-> [p \in Proxies |-> RMD0.Version]]
    /\ fwd = [op |-> "none"]
    /\ jn = [cfg |-> [enabled |-> TRUE, tooEarly |-> FALSE], h |-> <<IdleJoin>>]
    /\ dl = [pc |-> "none"]
    /\ rd = [pc |-> "none"]
    /\ ls = [pc |-> "none"]
    /\ adm = [op |-> "ic", sent |-> {}]

NextIC ==
    \/ \E r \in DOMAIN req, p \in Proxies, id \in Proxies : ClientSetPrimary(r, p, id)
    \/ \E r \in DOMAIN req : SetPrimaryBegin(r)
    \/ \E r \in DOMAIN req, n \in Nodes, e \in BOOLEAN : PrepareCall(r, n, e)
    \/ \E r \in DOMAIN req : PrepareDone(r)
    \/ \E r \in DOMAIN req, n \in Nodes, e \in BOOLEAN : CommitCall(r, n, e)
    \/ \E r \in DOMAIN req : CommitDone(r)
    \/ \E m \in msync : MetasyncHandler(m)
    \/ \E j \in DOMAIN jn.h, p \in Proxies, nsi \in ICJoiners, kind \in JoinKinds :
          HttpCluPost(j, p, nsi, kind)
    \/ \E j \in DOMAIN jn.h : UpdatePre(j)
    \/ \E j \in DOMAIN jn.h : UpdatePost(j)

SpecIC == InitIC /\ [][NextIC]_vars

\* p is a member of the council in both Smaps
ICInBoth(p, old, new) == IsIC(old, p) /\ IsIC(new, p)

\* p has sent its table to every member of new that old has not
ICSentAll(p, old, new) ==
    \A q \in ICOf(new) \ ICOf(old) : [from |-> p, to |-> q] \in adm'.sent

\* the step ends the updateAndDistribute of join j
ICJoinEnds(j) == jn.h[j].pc = "post" /\ jn'.h[j].pc = "done"

\* C32: a proxy that is a member of the council in the old and in the new
\* Smap and installs the new one - on a metasync, for a join, on becoming
\* primary - sends its ownership table to every member of the new council
\* that the old one has not; a proxy that is not a member in both sends
\* nothing.
ICNewMembersSent ==
    [][/\ \A p \in Proxies :
             (adm.op = "ic" /\ smap'[p] # smap[p] /\ jn' = jn
                 /\ ICInBoth(p, smap[p], smap'[p]))
                 => ICSentAll(p, smap[p], smap'[p])
       /\ \A j \in DOMAIN jn.h :
             (adm.op = "ic" /\ ICJoinEnds(j)
                 /\ ICInBoth(jn.h[j].at, jn.h[j].prev, jn.h[j].clone))
                 => ICSentAll(jn.h[j].at, jn.h[j].prev, jn.h[j].clone)
       /\ adm.op = "ic" =>
             \A t \in adm'.sent \ adm.sent :
                \/ ICInBoth(t.from, smap[t.from], smap'[t.from])
                \/ \E j \in DOMAIN jn.h :
                      /\ ICJoinEnds(j) /\ jn.h[j].at = t.from
                      /\ ICInBoth(t.from, jn.h[j].prev, jn.h[j].clone)]_vars

(***************************************************************************)
(* SpecTbl: PUT /v1/cluster with ActSendOwnershipTbl                       *)
(***************************************************************************)
\* the ages of the members of the council
MaxAge == 2
\* the calls from proxy to proxy that one request is followed through
MaxDeleg == 3

\* the Smaps of a cluster of the proxies, with every council and all ages
TblSmaps ==
    UNION {{[Version |-> MaxAge, Primary |-> "p1", Pmap |-> Proxies,
             Tmap |-> Targets, IC |-> ic] : ic \in [M -> 1..MaxAge]} :
           M \in SUBSET Proxies \ {{}}}

\* the destinations asked for: the proxies and an id that no Smap holds
TblDsts == Proxies \cup {"p9"}

\* smapX.OldestIC: a member of the least age
OldestIC(s) == {q \in ICOf(s) : \A r \in ICOf(s) : s.IC[q] <= s.IC[r]}

\* cluputJSON, case ActSendOwnershipTbl, lines 3443-3484, at proxy p that
\* holds the Smap s, when OldestIC returns si
sendOwnershipTblCase(s, p, dstID, si) ==
    IF ~GetProxy(s, dstID) THEN [act |-> "unknown", to |-> NoNode]
    ELSE IF ~IsIC(s, dstID) THEN [act |-> "notic", to |-> NoNode]
    ELSE IF IsIC(s, p) /\ s.IC[p] < s.IC[dstID] THEN [act |-> "send", to |-> dstID]
    ELSE IF si = dstID THEN [act |-> "noop", to |-> NoNode]
    ELSE [act |-> "delegate", to |-> si]

\* a client sends the request to proxy p
TblRequest(p, dstID) ==
    /\ adm.op = "tbl" /\ adm.pc = "idle"
    /\ p \notin down
    /\ adm' = [adm EXCEPT !.pc = "recv", !.at = p, !.dst = dstID]
    /\ UNCHANGED <<smap, bmd, rmd, down, req, msync, waves, rx, fwd, jn, dl, rd, ls>>

\* the proxy that holds the request handles it
TblHandle(si) ==
    LET p == adm.at
        res == sendOwnershipTblCase(smap[p], p, adm.dst, si)
    IN
    /\ adm.op = "tbl" /\ adm.pc = "recv"
    /\ si \in OldestIC(smap[p]) \/ (OldestIC(smap[p]) = {} /\ si = NoNode)
    /\ res.act = "delegate" => adm.hops < MaxDeleg
    /\ adm' = IF res.act = "delegate"
              THEN [adm EXCEPT !.at = si, !.hops = @ + 1,
                               !.self = @ \/ si = p]
              ELSE [adm EXCEPT !.pc = res.act]
    /\ UNCHANGED <<smap, bmd, rmd, down, req, msync, waves, rx, fwd, jn, dl, rd, ls>>

InitTbl ==
    /\ smap \in {[p \in Proxies |-> s] : s \in TblSmaps}
    /\ bmd = [p \in Proxies |-> BMD0]
    /\ rmd = [p \in Proxies |-> RMD0]
    /\ down = {}
    /\ req = <<>>
    /\ msync = {}
    /\ waves = <<>>
    /\ rx = [last |-> [op |-> "none"], seen |-> [p \in Proxies |-> RMD0.Version]]
    /\ fwd = [op |-> "none"]
    /\ jn = [cfg |-> [enabled |-> TRUE, tooEarly |-> FALSE], h |-> <<>>]
    /\ dl = [pc |-> "none"]
    /\ rd = [pc |-> "none"]
    /\ ls = [pc |-> "none"]
    /\ adm = [op |-> "tbl", pc |-> "idle", at |-> NoNode, dst |-> NoNode,
              hops |-> 0, self |-> FALSE]

NextTbl ==
    \/ \E p \in Proxies, dstID \in TblDsts : TblRequest(p, dstID)
    \/ \E si \in Proxies \cup {NoNode} : TblHandle(si)

SpecTbl == InitTbl /\ [][NextTbl]_vars

\* C33: a send-ownership-table request is passed on to another proxy at
\* most once and is never passed by a proxy to itself, whatever the ages of
\* the members of the council.
TblDelegatedOnce ==
    adm.op = "tbl" => (adm.hops <= 1 /\ ~adm.self)

(***************************************************************************)
(* The forced join at a proxy that is not primary                          *)
(***************************************************************************)
\* C34: a forced join asked of a proxy that is not primary in its own Smap
\* is rejected: none of the calls of forcefulJoin is made, and the Smap and
\* the role of the metasyncer of the proxy are as they were.
ForceOnlyOnPrimary ==
    (adm.op = "forcejoin" /\ ForceRefused(adm.was, adm.p)) =>
        /\ adm.steps = <<>>
        /\ smap[adm.p] = adm.was
        /\ adm.role[adm.p] = adm.roleWas

(***************************************************************************)
(* SpecMsPc: the metasync handler while the primary changes                *)
(***************************************************************************)
\* the handler of PUT /v1/metasync goes item by item, and the handlers of
\* the primary change run at the same time
InitMsPc == InitMs

\* the Smap of a payload is that of its sender, which held itself primary:
\* it does not name the receiver
MsSentTo(p, m) == IF m.smap = NoMD THEN TRUE ELSE m.smap.Primary # p

\* one payload arrives, each of its items absent or newer than what the
\* receivers start with
MsPcPayloads ==
    {m \in MsPayloads :
        \A x \in {"smap", "rmd", "bmd"} : m[x] = NoMD \/ m[x].Version = MaxVer}

NextMsPc ==
    \/ \E r \in DOMAIN req, p \in Proxies, id \in Proxies : ClientSetPrimary(r, p, id)
    \/ \E r \in DOMAIN req : SetPrimaryBegin(r)
    \/ \E r \in DOMAIN req, n \in Nodes, e \in BOOLEAN : PrepareCall(r, n, e)
    \/ \E r \in DOMAIN req : PrepareDone(r)
    \/ \E r \in DOMAIN req, n \in Nodes, e \in BOOLEAN : CommitCall(r, n, e)
    \/ \E r \in DOMAIN req : CommitDone(r)
    \/ \E p \in Proxies, m \in MsPcPayloads :
          adm.n = 0 /\ MsSentTo(p, m) /\ MsBegin(p, m)
    \/ MsSmap
    \/ MsRmd
    \/ MsBmd

SpecMsPc == InitMsPc /\ [][NextMsPc]_vars

\* the handler takes its next item
MsItemStep ==
    /\ adm.op = "ms" /\ adm.pc \in {"smap", "rmd", "bmd"}
    /\ adm'.n = adm.n
    /\ adm'.pc # adm.pc

\* C35: a proxy that is primary in its own Smap installs nothing of a
\* payload: a request that finds the proxy primary is refused, and no item
\* of a payload is installed by a proxy that is primary in its own Smap; its
\* Smap, RMD and BMD stay as they are.
MsPrimaryInstallsNothing ==
    [][/\ (adm.op = "ms" /\ adm'.n = adm.n + 1 /\ isPrimary(smap[adm'.p], adm'.p))
            => /\ adm'.pc = "refused"
               /\ <<smap', rmd', bmd'>> = <<smap, rmd, bmd>>
       /\ (MsItemStep /\ isPrimary(smap[adm.p], adm.p))
            => /\ smap'[adm.p] = smap[adm.p]
               /\ rmd'[adm.p] = rmd[adm.p]
               /\ bmd'[adm.p] = bmd[adm.p]]_vars

(***************************************************************************)
(* SpecPerm: the handlers of objects and of HEAD bucket, from bck.Init to  *)
(* the permission check                                                    *)
(***************************************************************************)
\* the access that the handler asks of the token: httpobjget line 677,
\* httpbckhead line 1616
PermAccesses == {"GET", "HEAD"}

\* lines 668, 727, 1605: bck.Init finds the bucket in the BMD and the handler
\* goes to the permission check without a call of try
ObjInitFound(i, p, b) ==
    /\ adm.op = "rem"
    /\ adm.h[i].pc = "idle"
    /\ p \notin down
    /\ b \in bmd[p].Buckets
    /\ adm' = [adm EXCEPT !.h[i] = RemRec("done", p, b, StatusOK, FALSE)]
    /\ UNCHANGED <<smap, bmd, rmd, down, req, msync, waves, rx, fwd, jn, dl, rd, ls>>

\* lines 677-680, 738-746, 1616-1619: checkPermissions, after bck.Init and
\* after try has returned without an error; 401 if the token of the request
\* does not grant the access
ObjCheckPermissions(i, token, access) ==
    LET h == adm.h[i]
    IN
    /\ adm.op = "rem"
    /\ h.pc = "done"
    /\ h.at \notin down
    /\ adm' = [adm EXCEPT !.h[i] =
                  IF checkPermissions(token, access)
                  THEN [h EXCEPT !.pc = "permitted"]
                  ELSE [h EXCEPT !.pc = "denied", !.status = StatusUnauthorized]]
    /\ UNCHANGED <<smap, bmd, rmd, down, req, msync, waves, rx, fwd, jn, dl, rd, ls>>

InitPerm == InitRem

NextPerm ==
    \/ \E i \in 1..MaxRem, p \in Proxies, b \in BucketNames,
          initErr \in RemInitErrs, validProvider \in BOOLEAN :
          RemTryBegin(i, p, b, initErr, validProvider)
    \/ \E i \in 1..MaxRem, answer \in RemAnswers : RemLookup(i, answer)
    \/ \E i \in 1..MaxRem : RemCreate(i)
    \/ \E i \in 1..MaxRem, p \in Proxies, b \in BucketNames : ObjInitFound(i, p, b)
    \/ \E i \in 1..MaxRem, token \in Grants, access \in PermAccesses :
          ObjCheckPermissions(i, token, access)
    \/ \E m \in msync : MetasyncHandler(m)

SpecPerm == InitPerm /\ [][NextPerm]_vars

\* C36: a request that is answered 401 by the permission check has added no
\* bucket to the BMD: the registration of a remote bucket on the fly does
\* not come before checkPermissions has succeeded for the request.
DeniedAddsNothing ==
    \A i \in 1..MaxRem :
        (adm.op = "rem" /\ adm.h[i].pc = "denied") =>
            /\ adm.h[i].status = StatusUnauthorized
            /\ ~adm.h[i].added

(***************************************************************************)
(* SpecUrl: nodes that join with the URL of another node                   *)
(***************************************************************************)
\* the targets that register, and the URLs that they bring: that of t1 and
\* two that no node of the cluster has
UrlIDs == {"t1", "t2", "t3"}
UrlNets == {"url-t1", "url-x", "url-y"}
UrlDescs == [id : UrlIDs, net : UrlNets]

\* smapX.IsDuplicateURL: a node of the Smap with another id has the URL of
\* nsi; reg holds the descriptors of the nodes of the Smap
IsDuplicateURL(s, reg, nsi) ==
    \E n \in UrlIDs : /\ containsID(s, n)
                      /\ n # nsi.id
                      /\ reg[n].net = nsi.net

\* httpclupost, lines 3054-3074: handleJoinKalive under the lock of the Smap
\* owner, with the check of line 3138, and the start of updateAndDistribute
UrlCluPost(j, p, nsi, kind) ==
    KaCluPost(j, p, nsi, kind, NoAnswer, FALSE, IsDuplicateURL(smap[p], adm.reg, nsi))

InitUrl ==
    /\ smap = [p \in Proxies |-> Smap0]
    /\ bmd = [p \in Proxies |-> BMD0]
    /\ rmd = [p \in Proxies |-> RMD0]
    /\ down = {}
    /\ req = <<>>
    /\ msync = {}
    /\ waves = <<>>
    /\ rx = [last |-> [op |-> "none"], seen |-> [p \in Proxies |-> RMD0.Version]]
    /\ fwd = [op |-> "none"]
    /\ jn = [cfg |-> [enabled |-> TRUE, tooEarly |-> FALSE],
             h |-> [j \in 1..MaxKa |-> IdleJoin]]
    /\ dl = [pc |-> "none"]
    /\ rd = [pc |-> "none"]
    /\ ls = [pc |-> "none"]
    /\ adm = [op |-> "ka",
              reg |-> [n \in UrlIDs |-> [id |-> n, net |-> "url-" \o n]],
              heard |-> {},
              h |-> [j \in 1..MaxKa |-> [kind |-> "none"]]]

NextUrl ==
    \/ \E j \in DOMAIN jn.h, p \in Proxies, nsi \in UrlDescs, kind \in JoinKinds :
          UrlCluPost(j, p, nsi, kind)
    \/ \E j \in DOMAIN jn.h : UpdatePre(j)
    \/ \E j \in DOMAIN jn.h : UpdatePost(j)
    \/ \E m \in msync : MetasyncHandler(m)

SpecUrl == InitUrl /\ [][NextUrl]_vars

\* C37: no two nodes of the Smap of a proxy, with distinct ids, have the
\* same URL, also when two nodes with distinct ids and the same URL join at
\* the same time.
NoSharedURL ==
    adm.op = "ka" =>
        \A p \in Proxies : \A a \in UrlIDs, b \in UrlIDs :
            (a # b /\ containsID(smap[p], a) /\ containsID(smap[p], b))
                => adm.reg[a].net # adm.reg[b].net

(***************************************************************************)
(* recoverBuckets when no target has answered                              *)
(***************************************************************************)
\* C39: when no target answers the broadcast of recoverBuckets with success,
\* the primary reports an error, leaves its BMD as it was and calls no
\* metasync; it does not dereference the BMD that it has not got.
RecNoAnswerReported ==
    (adm.op = "recover" /\ adm.err # "forwarded" /\ DOMAIN adm.bmds = {}) =>
        /\ adm.err \notin {"none", "panic"}
        /\ RecStopped

(***************************************************************************)
(* SpecRecoverFar: recoverBuckets, with targets whose versions lie more    *)
(* than 100 apart                                                          *)
(***************************************************************************)
\* the BMDs that a target may report: those of RecBMDs and, for each UUID,
\* one whose version is more than 100 above them
RecFarBMDs ==
    RecBMDs \cup {[BMD0 EXCEPT !.UUID = u, !.Version = MaxVer + 100 + 1] : u \in UUIDs}

RecFarAnswers == UNION {[ts -> RecFarBMDs] : ts \in SUBSET TargetNodes}

NextRecoverFar ==
    \/ \E p \in Proxies, bmds \in RecFarAnswers, force \in BOOLEAN :
          RecoverBuckets(p, bmds, force)
    \/ \E m \in msync : MetasyncHandler(m)

SpecRecoverFar == InitRecover /\ [][NextRecoverFar]_vars

\* C40: after recoverBuckets has succeeded, the version of the BMD of the
\* primary is greater than the version that any target has answered with,
\* forced or not, whatever the UUIDs and versions of the answers.
RecoveredAboveAll ==
    (adm.op = "recover" /\ adm.err = "none" /\ adm.p \notin down) =>
        \A t \in DOMAIN adm.bmds : bmd[adm.p].Version > adm.bmds[t].Version

====
